---- MODULE Spec2Model ----
(***************************************************************************)
(* Assessment session manager of the Profiles platform: the routes of      *)
(* assessmentsApp (start, next, respond, complete) over the assessments,   *)
(* responses and scale_scores tables, for one assessment.                   *)
(***************************************************************************)
EXTENDS Integers, Sequences, FiniteSets, TLC

\* ---------------------------------------------------------------- bounds
\* most Response rows one assessment may hold
MaxResponses == 2
\* last instant of the clock
MaxTime == 1
\* most Response rows of an assessment that is taken through all its sections
MaxCatResponses == 24
\* largest weight of a model scale range
MaxWeight == 2
\* days between two instants of the clock
TickDays == 8
\* longest behavioral response stream handed to the validity check
MaxStream == 6
\* most forced-choice pairs and most responses handed to scoreInterests
MaxPairs == 2
MaxChoices == 2
\* most performance models created
MaxModels == 1
\* cognitive responses of one examinee in the runs of the estimator
MaxAdministered == 2

\* ------------------------------------------------------- program constants
\* expiresAt = createdAt + 7 days
SevenDays == 7
\* minItems and maxItems handed to shouldStopTest by next
CogMinItems == 5
CogMaxItems == 20

\* targetSEM handed to shouldStopTest by next, in thousandths
TargetSEM == 350

\* minItems, maxItems and targetSEM (in thousandths) of shouldStopTest when
\* the caller leaves them out
DefaultMinItems == 5
DefaultMaxItems == 30
DefaultTargetSEM == 300

\* the bounds of the learning index handed to likertSumToSten by complete
LiMin == 0
LiMax == 80

\* the distortion items of the item library
DistortionItems == 15

\* JavaScript numbers: finite ones in thousandths, NaN, Infinity, and null
Num(v) == [kind |-> "num", v |-> v]
NaN == [kind |-> "nan", v |-> 0]
Infinity == [kind |-> "inf", v |-> 0]
NullNum == [kind |-> "null", v |-> 0]
Null == "null"
NoItem == "none"
NoTime == -1

\* ------------------------------------------------------------ seeded data
\* rows of the items table in rowid (insertion) order
ItemBank ==
  << [id |-> "c1", scaleId |-> "verbal_skill", domain |-> "cognitive",
      isDistortion |-> FALSE, isActive |-> TRUE, correctAnswer |-> "A"],
     [id |-> "b1", scaleId |-> "energy_level", domain |-> "behavioral",
      isDistortion |-> FALSE, isActive |-> TRUE, correctAnswer |-> Null],
     [id |-> "b2", scaleId |-> "energy_level", domain |-> "behavioral",
      isDistortion |-> FALSE, isActive |-> TRUE, correctAnswer |-> Null],
     [id |-> "i1", scaleId |-> "enterprising", domain |-> "interests",
      isDistortion |-> FALSE, isActive |-> TRUE, correctAnswer |-> Null],
     [id |-> "d1", scaleId |-> "distortion", domain |-> "behavioral",
      isDistortion |-> TRUE, isActive |-> TRUE, correctAnswer |-> Null] >>

\* rows of the scales table in rowid order
ScaleBank ==
  << [id |-> "verbal_skill", domain |-> "cognitive", type |-> "cognitive", isComposite |-> FALSE],
     [id |-> "learning_index", domain |-> "cognitive", type |-> "cognitive", isComposite |-> TRUE],
     [id |-> "energy_level", domain |-> "behavioral", type |-> "trait", isComposite |-> FALSE],
     [id |-> "enterprising", domain |-> "interests", type |-> "interest", isComposite |-> FALSE],
     [id |-> "creative", domain |-> "interests", type |-> "interest", isComposite |-> FALSE],
     [id |-> "distortion", domain |-> "behavioral", type |-> "distortion", isComposite |-> FALSE] >>

\* the four cognitive sub-scales summed into the learning index
LearningIndexScales ==
  <<"verbal_skill", "verbal_reasoning", "numerical_ability", "numeric_reasoning">>

AssessmentTypes == {"full", "cognitive_only", "behavioral_only", "interests_only"}

ItemIds == {ItemBank[k].id : k \in 1..Len(ItemBank)}

\* ------------------------------------------------------------------ state
VARIABLES
  assessment,   \* the row of the assessments table
  responses,    \* rows of the responses table of the assessment, in insertion order
  scaleScores,  \* rows of the scale_scores table of the assessment
  now,          \* the clock read by new Date() and Date.now()
  last,         \* the request answered last and its reply
  strayed,      \* the examinee has left the next/respond protocol of the web client
  inflight,     \* respond requests suspended at an await
  modelScales,  \* rows of performance_model_scales of the performance model m1
  reply,        \* the reply of the match engine or of a report
  validity,     \* the streams handed to checkResponseValidity and what it returned
  interests,    \* the responses and pairs handed to scoreInterests and what it returned
  performanceModels,       \* ids of the rows of the performance_models table
  performanceModelScales,  \* rows of performance_model_scales, in insertion order
  modelCount,              \* performance models created so far
  modelRequests,           \* the PUT and the DELETE request on a model, step by step
  foreignKeys,             \* the connection enforces foreign keys
  estimation               \* cognitive responses and what the estimator was handed

vars == <<assessment, responses, scaleScores, now, last, strayed, inflight,
          modelScales, reply, validity, interests,
          performanceModels, performanceModelScales, modelCount, modelRequests,
          foreignKeys, estimation>>

\* the variables of the match engine, of the reports and of the scoring functions
matchVars == <<modelScales, reply, validity, interests,
               performanceModels, performanceModelScales, modelCount, modelRequests,
               foreignKeys, estimation>>

\* the variables of the session, of the match engine and of the scoring functions
sessionState == <<assessment, responses, scaleScores, now, last, strayed, inflight,
                  modelScales, reply, validity, interests>>

\* the variables of the performance model routes
modelVars == <<performanceModels, performanceModelScales, modelCount, modelRequests,
               foreignKeys>>

Procs == {1, 2}

IdleProc == [pc |-> "idle", itemId |-> NoItem, response |-> Null, readIndex |-> 0,
             result |-> Null]

\* ------------------------------------------------------- helper functions
SeqToSet(s) == {s[k] : k \in 1..Len(s)}

RECURSIVE SumSeq(_)
SumSeq(s) == IF s = <<>> THEN 0 ELSE Head(s) + SumSeq(Tail(s))

ItemById(id) == CHOOSE it \in SeqToSet(ItemBank) : it.id = id

getCognitiveItems ==
  SelectSeq(ItemBank, LAMBDA it : it.domain = "cognitive" /\ it.isActive)

getBehavioralItems ==
  SelectSeq(ItemBank, LAMBDA it : it.domain = "behavioral" /\ it.isActive)

getInterestItems ==
  SelectSeq(ItemBank, LAMBDA it : it.domain = "interests" /\ it.isActive)

getScales(domain) == SelectSeq(ScaleBank, LAMBDA s : s.domain = domain)

answeredItemIds(resps) == {resps[k].itemId : k \in 1..Len(resps)}

\* the filter left out: every item of the section counts as unanswered
UnansweredNoFilter(its, resps) == its

\* items.filter(i => !answeredItemIds.has(i.id))
Unanswered(its, resps) ==
  SelectSeq(its, LAMBDA it : it.id \notin answeredItemIds(resps))

\* x > y of JavaScript: false as soon as one side is NaN
JsGt(x, y) ==
  /\ x.kind # "nan" /\ y.kind # "nan"
  /\ \/ x.kind = "inf" /\ y.kind = "num"
     \/ x.kind = "num" /\ y.kind = "num" /\ x.v > y.v

\* x <= y of JavaScript
JsLe(x, y) ==
  /\ x.kind # "nan" /\ y.kind # "nan"
  /\ \/ y.kind = "inf"
     \/ x.kind = "num" /\ y.kind = "num" /\ x.v <= y.v

\* JSON.parse of a stored Likert response
JsonParseNumber(txt) ==
  CASE txt = "1" -> 1
    [] txt = "5" -> 5
    [] OTHER -> 0

\* JSON.parse of a stored string response
JsonParseString(txt) ==
  CASE txt = "\"A\"" -> "A"
    [] txt = "\"B\"" -> "B"
    [] txt = "\" a\"" -> " a"
    [] OTHER -> txt

\* String(response).trim().toLowerCase()
TrimLower(str) ==
  CASE str = "A" -> "a"
    [] str = " a" -> "a"
    [] str = "B" -> "b"
    [] OTHER -> str

\* the JSON texts a client sends as the response to an item
ResponseTexts(itemId) ==
  IF itemId \notin ItemIds THEN {"1"}
  ELSE CASE ItemById(itemId).domain = "cognitive" -> {"\" a\"", "\"B\""}
         [] ItemById(itemId).domain = "behavioral" -> {"5"}
         [] OTHER -> {"\"A\""}

\* ------------------------------------------------------------- IRT engine
\* the rows handed over carry irtA, irtB, irtC and no a, b, c: the
\* destructured parameters are undefined and the information is NaN
itemInformation(theta, item) == NaN

RECURSIVE selectLoop(_, _, _, _, _)
selectLoop(theta, administered, available, maxInfo, selected) ==
  IF available = <<>> THEN selected
  ELSE LET item == Head(available)
           info == itemInformation(theta, item)
       IN IF item.id \in administered
          THEN selectLoop(theta, administered, Tail(available), maxInfo, selected)
          ELSE IF JsGt(info, maxInfo)
               THEN selectLoop(theta, administered, Tail(available), info, item.id)
               ELSE selectLoop(theta, administered, Tail(available), maxInfo, selected)

\* the id of the selected item, NoItem for null
selectNextItem(theta, administered, available) ==
  selectLoop(theta, administered, available, Num(-1000), NoItem)

\* items[i] is undefined for some i < responses.length: TypeError
estimateThrows(resp, its) == Len(its) < Len(resp)

\* Newton-Raphson from 0: no response leaves 0, any response adds NaN terms
estimateAbility(resp, its) == IF Len(resp) = 0 THEN Num(0) ELSE NaN

getSEM(theta, its) == IF Len(its) = 0 THEN Infinity ELSE NaN

shouldStopTest(theta, administered, minItems, maxItems, targetSEM) ==
  IF Len(administered) < minItems THEN FALSE
  ELSE IF Len(administered) >= maxItems THEN TRUE
  ELSE JsLe(getSEM(theta, administered), Num(targetSEM))

\* ------------------------------------------------------------ STEN scores
\* a STEN as the number handed to the scale_scores row
StenNum(k) == Num(1000 * k)

\* the least proportions, in millionths, at which
\* round(STEN_MEAN + normalInverse(p) * STEN_SD) reaches 1, 2, ..., 10
StenCuts == <<1, 22751, 66808, 158656, 308538, 500000, 691463, 841345, 933193, 977250>>

\* Math.max(1, Math.min(10, Math.round(5.5 + 2 * normalInverse(num / den))))
stenOfProportion(num, den) ==
  CHOOSE k \in 1..10 :
     /\ StenCuts[k] * den <= num * 1000000
     /\ (k = 10 \/ StenCuts[k + 1] * den > num * 1000000)

rawToSten(rawScore, minScore, maxScore) ==
  IF rawScore <= minScore THEN 1
  ELSE IF rawScore >= maxScore THEN 10
  ELSE stenOfProportion(rawScore - minScore, maxScore - minScore)

likertSumToSten(resp, minPerItem, maxPerItem) ==
  rawToSten(SumSeq(resp), Len(resp) * minPerItem, Len(resp) * maxPerItem)

\* Math.max(1, Math.min(10, Math.round(5.5 + theta * 2))): NaN for NaN
thetaToSten(theta) ==
  IF theta.kind # "num" THEN NaN
  ELSE LET rounded == (5500 + 2 * theta.v + 500) \div 1000
       IN StenNum(IF rounded < 1 THEN 1 ELSE IF rounded > 10 THEN 10 ELSE rounded)

\* the STEN of the interest scale at a rank among n scales
rankToSten(rank, n) ==
  LET rounded == 4 + ((4 * n - 4 * rank + 2) \div n)
  IN IF rounded < 1 THEN 1 ELSE IF rounded > 10 THEN 10 ELSE rounded

\* a domain fit as the fraction n/d, and the reply before any request
Fit(n, d) == [n |-> n, d |-> d]

NoDistortion == [present |-> FALSE, sten |-> NullNum, valid |-> FALSE]

NoReply == [op |-> "none", result |-> Null,
            cognitiveFit |-> Fit(0, 1), behavioralFit |-> Fit(0, 1),
            interestsFit |-> Fit(0, 1), overallMatch |-> 0,
            details |-> <<>>, distortionScore |-> NoDistortion,
            interviewQuestions |-> <<>>]

\* the result of checkResponseValidity before it is called
NoResult == [called |-> FALSE, valid |-> FALSE, recommendation |-> Null,
             distortion |-> [stenScore |-> 0, category |-> Null],
             patterns |-> [isStraightLine |-> FALSE, isAlternating |-> FALSE,
                           isRandom |-> FALSE, recommendation |-> Null]]

NoValidity == [distortionResponses |-> <<>>, allBehavioralResponses |-> <<>>,
               result |-> NoResult]

\* scoreInterests before it is called
NoInterests == [responses |-> <<>>, pairs |-> <<>>, called |-> FALSE,
                scores |-> <<>>, top |-> <<>>]

\* a PUT or DELETE request that has not been sent
IdleRequest == [pc |-> "idle", id |-> <<"none", 0>>, hasRanges |-> FALSE, scaleRanges |-> <<>>,
                result |-> Null]

\* no cognitive response, and the estimator not called
NoEstimation == [responses |-> <<>>, op |-> "none", pairs |-> <<>>, answered |-> <<>>]

\* the tables of the performance models before any request
NoModelRows ==
  /\ performanceModels = {}
  /\ performanceModelScales = <<>>
  /\ modelCount = 0
  /\ modelRequests = [put |-> IdleRequest, del |-> IdleRequest]

\* no performance model, on a connection that leaves foreign keys unenforced
NoModels == NoModelRows /\ foreignKeys = FALSE

\* ------------------------------------------------------------------- Init
Init ==
  /\ assessment \in [type : AssessmentTypes, status : {"not_started"},
                      currentSection : {"cognitive"}, currentItemIndex : {0},
                      startedAt : {NoTime}, completedAt : {NoTime},
                      createdAt : {0}, expiresAt : {0 + SevenDays}]
  /\ responses = <<>>
  /\ scaleScores = {}
  /\ now = 0
  /\ last = [op |-> "create", result |-> "ok", item |-> NoItem]
  /\ strayed = FALSE
  /\ inflight = [p \in Procs |-> IdleProc]
  /\ modelScales = <<>>
  /\ reply = NoReply
  /\ validity = NoValidity
  /\ interests = NoInterests
  /\ NoModels
  /\ estimation = NoEstimation

\* time passes
Tick ==
  /\ now < MaxTime * TickDays
  /\ now' = now + TickDays
  /\ UNCHANGED <<assessment, responses, scaleScores, last, strayed, inflight, matchVars>>

\* ------------------------------------------------------ POST /:id/start
\* the section always "cognitive", whatever the type
startSectionOfCognitive(type) == "cognitive"

startSectionOf(type) ==
  IF type = "behavioral_only" THEN "behavioral"
  ELSE IF type = "interests_only" THEN "interests"
  ELSE "cognitive"

Start ==
  /\ IF assessment.status = "completed"
     THEN /\ last' = [op |-> "start", result |-> "StateInvalid", item |-> NoItem]
          /\ UNCHANGED assessment
     ELSE /\ assessment' = [assessment EXCEPT !.status = "in_progress",
                                               !.startedAt = now,
                                               !.currentSection = startSectionOf(assessment.type),
                                               !.currentItemIndex = 0]
          /\ last' = [op |-> "start", result |-> "ok", item |-> NoItem]
  /\ strayed' = (strayed \/ assessment.status # "not_started")
  /\ UNCHANGED <<responses, scaleScores, now, inflight, matchVars>>

\* -------------------------------------------------------- GET /:id/next
\* existingResponses.filter(r => its.find(i => i.id === r.itemId))
responsesToItems(resps, its) ==
  SelectSeq(resps, LAMBDA r : \E it \in SeqToSet(its) : it.id = r.itemId)

\* what next computes from the rows it read: the item, sectionComplete, nextSection
nextOutcome(a, resps) ==
  LET section == a.currentSection
      itemIndex == a.currentItemIndex
      answered == answeredItemIds(resps)
      allCognitiveItems == getCognitiveItems
      cognitiveResponses == responsesToItems(resps, allCognitiveItems)
      respItems == [k \in 1..Len(cognitiveResponses) |->
                      ItemById(cognitiveResponses[k].itemId)]
      pattern == [k \in 1..Len(cognitiveResponses) |->
                    IF cognitiveResponses[k].isCorrect = "true" THEN 1 ELSE 0]
      theta == IF Len(cognitiveResponses) > 0
               THEN estimateAbility(pattern, respItems) ELSE Num(0)
      shouldStop == shouldStopTest(theta, respItems, CogMinItems, CogMaxItems, TargetSEM)
      cognitiveDone == shouldStop \/ Len(cognitiveResponses) >= CogMaxItems
      behavioralUnanswered == Unanswered(getBehavioralItems, resps)
      interestUnanswered == Unanswered(getInterestItems, resps)
  IN CASE section = "cognitive" ->
            IF cognitiveDone
            THEN [item |-> NoItem, sectionComplete |-> TRUE,
                  nextSection |-> IF a.type = "full" THEN "behavioral" ELSE Null]
            ELSE [item |-> selectNextItem(theta, answered,
                                          Unanswered(allCognitiveItems, resps)),
                  sectionComplete |-> FALSE, nextSection |-> Null]
       [] section = "behavioral" ->
            IF Len(behavioralUnanswered) > 0
            THEN [item |-> behavioralUnanswered[(itemIndex % Len(behavioralUnanswered)) + 1].id,
                  sectionComplete |-> FALSE, nextSection |-> Null]
            ELSE [item |-> NoItem, sectionComplete |-> TRUE,
                  nextSection |-> IF a.type = "full" THEN "interests" ELSE Null]
       [] section = "interests" ->
            IF Len(interestUnanswered) > 0
            THEN [item |-> interestUnanswered[(itemIndex % Len(interestUnanswered)) + 1].id,
                  sectionComplete |-> FALSE, nextSection |-> Null]
            ELSE [item |-> NoItem, sectionComplete |-> TRUE, nextSection |-> Null]
       [] OTHER -> [item |-> NoItem, sectionComplete |-> FALSE, nextSection |-> Null]

NextItem ==
  LET out == nextOutcome(assessment, responses)
  IN /\ IF assessment.status # "in_progress"
        THEN /\ last' = [op |-> "next", result |-> "StateInvalid", item |-> NoItem]
             /\ UNCHANGED assessment
        ELSE /\ assessment' =
                  IF ~out.sectionComplete THEN assessment
                  ELSE IF out.nextSection # Null
                  THEN [assessment EXCEPT !.currentSection = out.nextSection,
                                          !.currentItemIndex = 0]
                  ELSE [assessment EXCEPT !.status = "completed",
                                          !.completedAt = now]
             /\ last' = IF out.item # NoItem
                        THEN [op |-> "next", result |-> "item", item |-> out.item]
                        ELSE IF out.sectionComplete
                        THEN [op |-> "next", result |-> "sectionComplete", item |-> NoItem]
                        ELSE [op |-> "next", result |-> "NoItems", item |-> NoItem]
     /\ strayed' = (strayed \/ assessment.status # "in_progress"
                            \/ (last.op = "next" /\ last.result = "item"))
     /\ UNCHANGED <<responses, scaleScores, now, inflight, matchVars>>

\* ---------------------------------------------------- POST /:id/respond
\* isCorrect of a cognitive response: 1, 0, and null for the other domains
isCorrectOf(item, txt) ==
  IF item.domain = "cognitive"
  THEN IF TrimLower(JsonParseString(txt)) = TrimLower(item.correctAnswer)
       THEN "true" ELSE "false"
  ELSE "null"

\* the item rows that respond pairs with the response pattern
respondRespItems(resps, itemId) ==
  LET cognitiveItems == getCognitiveItems
      cognitiveResponses == responsesToItems(resps, cognitiveItems)
  IN [k \in 1..Len(cognitiveResponses) |-> ItemById(cognitiveResponses[k].itemId)]
       \o (IF \E it \in SeqToSet(cognitiveItems) : it.id = itemId
           THEN <<ItemById(itemId)>> ELSE <<>>)

respondPattern(resps, itemId, txt) ==
  LET cognitiveResponses == responsesToItems(resps, getCognitiveItems)
  IN [k \in 1..Len(cognitiveResponses) |->
        IF cognitiveResponses[k].isCorrect = "true" THEN 1 ELSE 0]
       \o <<IF isCorrectOf(ItemById(itemId), txt) = "true" THEN 1 ELSE 0>>

\* the row respond inserts
responseRow(resps, itemId, txt) ==
  [itemId |-> itemId, response |-> txt,
   isCorrect |-> isCorrectOf(ItemById(itemId), txt),
   theta |-> IF ItemById(itemId).domain = "cognitive"
             THEN estimateAbility(respondPattern(resps, itemId, txt),
                                  respondRespItems(resps, itemId))
             ELSE NullNum]

\* the checks of respond with the one of the status left out
respondCheckAnyStatus(a, itemId) ==
  IF itemId = "" THEN "InputInvalid"
  ELSE IF itemId \notin ItemIds THEN "NotFound"
  ELSE "accept"

\* the reply of respond before anything is written; "accept" when it goes on
respondCheck(a, itemId) ==
  IF itemId = "" THEN "InputInvalid"
  ELSE IF a.status # "in_progress" THEN "StateInvalid"
  ELSE IF itemId \notin ItemIds THEN "NotFound"
  ELSE "accept"

\* cap bounds the rows of the responses table
Respond(itemId, txt, cap) ==
  LET check == respondCheck(assessment, itemId)
  IN /\ IF check # "accept"
        THEN /\ last' = [op |-> "respond", result |-> check, item |-> NoItem]
             /\ UNCHANGED <<assessment, responses>>
        ELSE IF ItemById(itemId).domain = "cognitive"
                /\ estimateThrows(respondPattern(responses, itemId, txt),
                                  respondRespItems(responses, itemId))
        THEN /\ last' = [op |-> "respond", result |-> "InternalError", item |-> NoItem]
             /\ UNCHANGED <<assessment, responses>>
        ELSE /\ Len(responses) < cap
             /\ responses' = Append(responses, responseRow(responses, itemId, txt))
             /\ assessment' = [assessment EXCEPT
                                 !.currentItemIndex = assessment.currentItemIndex + 1]
             /\ last' = [op |-> "respond", result |-> "ok", item |-> NoItem]
     /\ strayed' = (strayed \/ ~(last.op = "next" /\ last.result = "item"
                                   /\ last.item = itemId))
     /\ UNCHANGED <<scaleScores, now, inflight, matchVars>>

\* --------------------------------------------------- POST /:id/complete
\* the responses of the cognitive scale, and the items estimateAbility gets
cognitiveScaleItems(scale) ==
  SelectSeq(ItemBank, LAMBDA it : it.scaleId = scale.id /\ it.domain = "cognitive")

cognitiveScaleResponses(resps, scale) ==
  responsesToItems(SelectSeq(resps, LAMBDA r : ItemById(r.itemId).domain = "cognitive"),
                   cognitiveScaleItems(scale))

RECURSIVE cognitiveScores(_, _)
cognitiveScores(resps, scaleSeq) ==
  IF scaleSeq = <<>> THEN <<>>
  ELSE LET scale == Head(scaleSeq)
           scaleResponses == cognitiveScaleResponses(resps, scale)
           rawScore == Len(SelectSeq(scaleResponses, LAMBDA r : r.isCorrect = "true"))
           pattern == [k \in 1..Len(scaleResponses) |->
                         IF scaleResponses[k].isCorrect = "true" THEN 1 ELSE 0]
           theta == estimateAbility(pattern, cognitiveScaleItems(scale))
       IN (IF ~scale.isComposite /\ Len(scaleResponses) > 0
           THEN <<[scaleId |-> scale.id, raw |-> rawScore, sten |-> thetaToSten(theta)]>>
           ELSE <<>>)
          \o cognitiveScores(resps, Tail(scaleSeq))

\* estimateAbility is handed more responses than the scale has items
completeThrows(resps) ==
  \E scale \in SeqToSet(getScales("cognitive")) :
     /\ ~scale.isComposite
     /\ estimateThrows(cognitiveScaleResponses(resps, scale), cognitiveScaleItems(scale))

rawOf(scores, scaleId) ==
  IF \E k \in 1..Len(scores) : scores[k].scaleId = scaleId
  THEN (CHOOSE e \in SeqToSet(scores) : e.scaleId = scaleId).raw
  ELSE 0

learningIndexScore(cogScores) ==
  LET liRaw == SumSeq([k \in 1..Len(LearningIndexScales) |->
                         rawOf(cogScores, LearningIndexScales[k])])
  IN [scaleId |-> "learning_index", raw |-> liRaw,
      sten |-> StenNum(likertSumToSten(<<liRaw>>, LiMin, LiMax))]

RECURSIVE behavioralScores(_, _)
behavioralScores(resps, scaleSeq) ==
  IF scaleSeq = <<>> THEN <<>>
  ELSE LET scale == Head(scaleSeq)
           scaleItems == SelectSeq(ItemBank,
                           LAMBDA it : it.scaleId = scale.id /\ ~it.isDistortion)
           behavioralResponses ==
             SelectSeq(resps, LAMBDA r : ItemById(r.itemId).domain = "behavioral"
                                         /\ ~ItemById(r.itemId).isDistortion)
           scaleResponses == responsesToItems(behavioralResponses, scaleItems)
           likertResponses == [k \in 1..Len(scaleResponses) |->
                                 JsonParseNumber(scaleResponses[k].response)]
       IN (IF Len(scaleResponses) > 0
           THEN <<[scaleId |-> scale.id, raw |-> SumSeq(likertResponses),
                   sten |-> StenNum(likertSumToSten(likertResponses, 1, 5))]>>
           ELSE <<>>)
          \o behavioralScores(resps, Tail(scaleSeq))

distortionScores(resps) ==
  LET distortionItems == SelectSeq(ItemBank, LAMBDA it : it.isDistortion)
      distortionResponses == responsesToItems(resps, distortionItems)
      distortionLikerts == [k \in 1..Len(distortionResponses) |->
                              JsonParseNumber(distortionResponses[k].response)]
  IN IF Len(distortionResponses) > 0
     THEN <<[scaleId |-> "distortion", raw |-> SumSeq(distortionLikerts),
             sten |-> StenNum(likertSumToSten(distortionLikerts, 1, 5))]>>
     ELSE <<>>

\* wins of a scale: the responses "A" to the interest items of the scale
interestWins(resps, scaleId) ==
  LET interestItems == SelectSeq(ItemBank, LAMBDA it : it.domain = "interests")
      interestResponses == responsesToItems(resps, interestItems)
  IN Len(SelectSeq(interestResponses,
                   LAMBDA r : /\ ItemById(r.itemId).scaleId = scaleId
                              /\ JsonParseString(r.response) = "A"))

\* Array.prototype.sort((a, b) => b[1] - a[1]): stable, descending
RECURSIVE insertDescending(_, _)
insertDescending(sorted, e) ==
  IF sorted = <<>> THEN <<e>>
  ELSE IF Head(sorted).raw >= e.raw
       THEN <<Head(sorted)>> \o insertDescending(Tail(sorted), e)
       ELSE <<e>> \o sorted

RECURSIVE sortDescending(_, _)
sortDescending(sorted, rest) ==
  IF rest = <<>> THEN sorted
  ELSE sortDescending(insertDescending(sorted, Head(rest)), Tail(rest))

interestScores(resps) ==
  LET interestScales == getScales("interests")
      entries == [k \in 1..Len(interestScales) |->
                    [scaleId |-> interestScales[k].id,
                     raw |-> interestWins(resps, interestScales[k].id)]]
      sortedInterests == sortDescending(<<>>, entries)
  IN [k \in 1..Len(sortedInterests) |->
        [scaleId |-> sortedInterests[k].scaleId, raw |-> sortedInterests[k].raw,
         sten |-> StenNum(rankToSten(k, Len(sortedInterests)))]]

\* Object.entries(scores), in insertion order of the keys
computeScores(resps) ==
  LET cogScores == cognitiveScores(resps, getScales("cognitive"))
  IN cogScores
     \o <<learningIndexScore(cogScores)>>
     \o behavioralScores(resps, SelectSeq(getScales("behavioral"),
                                          LAMBDA s : s.type = "trait"))
     \o distortionScores(resps)
     \o interestScores(resps)

\* the value an INTEGER column keeps of a number: NULL for NaN
storedNumber(x) == IF x.kind = "nan" THEN NullNum ELSE x

\* the scale_scores row of an entry; its id is score_<scaleId>_<Date.now()>
scoreRow(e, resps, t) ==
  [id |-> <<e.scaleId, t>>, scaleId |-> e.scaleId, rawScore |-> e.raw,
   stenScore |-> storedNumber(e.sten), itemCount |-> Len(resps)]

\* the entries inserted before an insert hits an id that is already stored
RECURSIVE insertedPrefix(_, _, _)
insertedPrefix(entries, rows, t) ==
  IF entries = <<>> THEN <<>>
  ELSE IF \E r \in rows : r.id = <<Head(entries).scaleId, t>>
       THEN <<>>
       ELSE <<Head(entries)>> \o insertedPrefix(Tail(entries), rows, t)

Complete ==
  LET scores == computeScores(responses)
      inserted == insertedPrefix(scores, scaleScores, now)
  IN /\ IF completeThrows(responses)
        THEN /\ last' = [op |-> "complete", result |-> "InternalError", item |-> NoItem]
             /\ UNCHANGED <<assessment, scaleScores>>
        ELSE /\ scaleScores' = scaleScores \cup
                  {scoreRow(inserted[k], responses, now) : k \in 1..Len(inserted)}
             /\ IF Len(inserted) < Len(scores)
                THEN /\ last' = [op |-> "complete", result |-> "RepositoryFailure",
                                 item |-> NoItem]
                     /\ UNCHANGED assessment
                ELSE /\ assessment' = [assessment EXCEPT !.status = "completed",
                                                         !.completedAt = now,
                                                         !.currentSection = "complete"]
                     /\ last' = [op |-> "complete", result |-> "ok", item |-> NoItem]
     /\ strayed' = (strayed \/ ~(last.op = "next" /\ last.result = "sectionComplete"
                                   /\ assessment.status = "completed"))
     /\ UNCHANGED <<responses, now, inflight, matchVars>>

\* ------------------------------------------------------- the session
Next ==
  \/ Tick
  \/ Start
  \/ NextItem
  \/ \E itemId \in ItemIds \cup {"zz", ""} :
       \E txt \in ResponseTexts(itemId) : Respond(itemId, txt, MaxResponses)
  \/ Complete

Spec == Init /\ [][Next]_vars

\* ------------------------------------- respond, one step per repository call
\* select the assessment and the item, and check them
RespondRead(p, itemId, txt) ==
  LET check == respondCheck(assessment, itemId)
  IN /\ inflight[p].pc = "idle"
     /\ inflight' = [inflight EXCEPT ![p] =
          IF check # "accept"
          THEN [IdleProc EXCEPT !.pc = "done", !.result = check]
          ELSE [pc |-> "read", itemId |-> itemId, response |-> txt,
                readIndex |-> assessment.currentItemIndex, result |-> Null]]
     /\ UNCHANGED <<assessment, responses, scaleScores, now, last, strayed, matchVars>>

\* select the responses, estimate theta, insert the response
RespondInsert(p) ==
  LET req == inflight[p]
  IN /\ req.pc = "read"
     /\ IF ItemById(req.itemId).domain = "cognitive"
           /\ estimateThrows(respondPattern(responses, req.itemId, req.response),
                             respondRespItems(responses, req.itemId))
        THEN /\ inflight' = [inflight EXCEPT ![p].pc = "done",
                                             ![p].result = "InternalError"]
             /\ UNCHANGED responses
        ELSE /\ Len(responses) < MaxResponses
             /\ responses' = Append(responses,
                                    responseRow(responses, req.itemId, req.response))
             /\ inflight' = [inflight EXCEPT ![p].pc = "inserted"]
     /\ UNCHANGED <<assessment, scaleScores, now, last, strayed, matchVars>>

\* update currentItemIndex from the value read at the start, and reply
RespondUpdate(p) ==
  /\ inflight[p].pc = "inserted"
  /\ assessment' = [assessment EXCEPT !.currentItemIndex = inflight[p].readIndex + 1]
  /\ inflight' = [inflight EXCEPT ![p].pc = "done", ![p].result = "ok"]
  /\ last' = [op |-> "respond", result |-> "ok", item |-> NoItem]
  /\ UNCHANGED <<responses, scaleScores, now, strayed, matchVars>>

\* the examinee starts the assessment once
StartOnce == assessment.status = "not_started" /\ Start

NextConc ==
  \/ StartOnce
  \/ \E p \in Procs : \E itemId \in ItemIds \cup {"zz"} :
       \E txt \in ResponseTexts(itemId) : RespondRead(p, itemId, txt)
  \/ \E p \in Procs : RespondInsert(p)
  \/ \E p \in Procs : RespondUpdate(p)

\* one start, then two respond requests racing on the assessment
SpecConc == Init /\ [][NextConc]_vars

\* ------------------------------------ a session through all the sections
\* the answer the examinee of this session gives to an item
sectionAnswer(itemId) ==
  CASE ItemById(itemId).domain = "cognitive" -> "\"B\""
    [] ItemById(itemId).domain = "behavioral" -> "5"
    [] OTHER -> "\"A\""

\* respond for an item of the current section; an item of the behavioral or
\* the interests section is answered once
RespondInSection(itemId) ==
  /\ assessment.status = "in_progress"
  /\ ItemById(itemId).domain = assessment.currentSection
  /\ (assessment.currentSection # "cognitive" => itemId \notin answeredItemIds(responses))
  /\ Respond(itemId, sectionAnswer(itemId), MaxCatResponses)

NextCat ==
  \/ StartOnce
  \/ NextItem
  \/ \E itemId \in ItemIds : RespondInSection(itemId)

\* one start, then next and respond section by section
SpecCat == Init /\ [][NextCat]_vars

\* ------------------------------------------ a session on the interest items
\* the JSON texts a client sends for a forced-choice pair
InterestTexts == {"\"A\"", "\"B\""}

NextInterests ==
  \/ Tick
  \/ Start
  \/ \E k \in 1..Len(getInterestItems) : \E txt \in InterestTexts :
       Respond(getInterestItems[k].id, txt, MaxResponses)
  \/ Complete

\* start, responses A or B to the interest items, complete
SpecInterests == Init /\ [][NextInterests]_vars

\* ------------------------------------------------------------ match engine
cognitiveScaleIds ==
  <<"verbal_skill", "verbal_reasoning", "numerical_ability", "numeric_reasoning",
    "learning_index">>

behavioralScaleIds ==
  <<"energy_level", "assertiveness", "sociability", "manageability", "attitude",
    "decisiveness", "accommodating", "independence", "objective_judgment">>

interestScaleIds ==
  <<"enterprising", "financial_admin", "people_service", "technical", "mechanical",
    "creative">>

\* a stored number in arithmetic: null counts as 0
numberOf(x) == IF x.kind = "num" THEN x.v \div 1000 ELSE 0

Max0(x) == IF x > 0 THEN x ELSE 0

\* the penalty with the quadratic term left out
calculateScalePenaltyLinear(candidateSten, targetMin, targetMax) ==
  LET below == Max0(targetMin - numberOf(candidateSten))
      above == Max0(numberOf(candidateSten) - targetMax)
      distance == below + above
  IN [penalty |-> Max0(100 - 15 * distance), distance |-> distance,
      withinRange |-> (distance = 0)]

\* the penalty in hundredths
calculateScalePenalty(candidateSten, targetMin, targetMax) ==
  LET below == Max0(targetMin - numberOf(candidateSten))
      above == Max0(numberOf(candidateSten) - targetMax)
      distance == below + above
      penalty == 100 - (15 * distance + 5 * distance * distance)
  IN [penalty |-> Max0(penalty), distance |-> distance,
      withinRange |-> (distance = 0)]

\* calculateScalePenalty of the reports routes
reportsScalePenalty(candidateSten, targetMin, targetMax) ==
  LET below == Max0(targetMin - numberOf(candidateSten))
      above == Max0(numberOf(candidateSten) - targetMax)
      distance == below + above
      penalty == 100 - (15 * distance + 5 * distance * distance)
  IN [penalty |-> Max0(penalty), distance |-> distance,
      withinRange |-> (distance = 0)]

\* select ... where scaleId = ... .get(): the row inserted first
hasScore(rows, scaleId) == \E r \in rows : r.scaleId = scaleId

scoreOf(rows, scaleId) ==
  CHOOSE r \in rows :
     /\ r.scaleId = scaleId
     /\ \A o \in rows : o.scaleId = scaleId => r.id[2] <= o.id[2]

\* modelScale.weight || 1
weightOf(modelScale) == IF modelScale.weight = 0 THEN 1 ELSE modelScale.weight

\* the model ranges of a domain for which the candidate has a score
contributing(rows, ranges, scaleIds) ==
  SelectSeq(ranges, LAMBDA ms : ms.scaleId \in SeqToSet(scaleIds)
                                 /\ hasScore(rows, ms.scaleId))

\* the loop of a domain match: totalFit in hundredths, weightSum, details
matchLoop(rows, ranges, scaleIds) ==
  LET used == contributing(rows, ranges, scaleIds)
      detail(ms) ==
        LET sc == scoreOf(rows, ms.scaleId)
            pen == calculateScalePenalty(sc.stenScore, ms.targetStenMin, ms.targetStenMax)
        IN [scaleId |-> ms.scaleId, candidateSten |-> sc.stenScore,
            targetMin |-> ms.targetStenMin, targetMax |-> ms.targetStenMax,
            distance |-> pen.distance, withinRange |-> pen.withinRange,
            penalty |-> pen.penalty]
      details == [k \in 1..Len(used) |-> detail(used[k])]
  IN [totalFit |-> SumSeq([k \in 1..Len(used) |-> details[k].penalty * weightOf(used[k])]),
      weightSum |-> SumSeq([k \in 1..Len(used) |-> weightOf(used[k])]),
      details |-> details]

\* fit = weightSum > 0 ? (totalFit / weightSum) * 100 : 0, as a fraction
calculateCognitiveMatch(rows, ranges) ==
  LET m == matchLoop(rows, ranges, cognitiveScaleIds)
  IN [fit |-> IF m.weightSum > 0 THEN Fit(m.totalFit, m.weightSum) ELSE Fit(0, 1),
      details |-> m.details]

calculateBehavioralMatch(rows, ranges) ==
  LET m == matchLoop(rows, ranges, behavioralScaleIds)
  IN [fit |-> IF m.weightSum > 0 THEN Fit(m.totalFit, m.weightSum) ELSE Fit(0, 1),
      details |-> m.details]

\* Math.round of the fraction n/d with d > 0
roundFraction(n, d) == (2 * n + d) \div (2 * d)

\* slice(0, 3)[i]: the scale at a rank of the top three, "undefined" beyond
topAt(sorted, i) == IF i <= Len(sorted) THEN sorted[i].scaleId ELSE "undefined"

\* rank-order matching of the top three interests
calculateInterestsMatch(rows, ranges) ==
  LET present == SelectSeq(interestScaleIds, LAMBDA id : hasScore(rows, id))
      candidateScores ==
        sortDescending(<<>>, [k \in 1..Len(present) |->
           [scaleId |-> present[k],
            raw |-> numberOf(scoreOf(rows, present[k]).stenScore)]])
      modelInterestScales ==
        SelectSeq(ranges, LAMBDA ms : ms.scaleId \in SeqToSet(interestScaleIds))
      modelSorted ==
        sortDescending(<<>>, [k \in 1..Len(modelInterestScales) |->
           [scaleId |-> modelInterestScales[k].scaleId,
            raw |-> modelInterestScales[k].targetStenMax
                      + modelInterestScales[k].targetStenMin]])
      matches == Cardinality({i \in 1..3 : topAt(candidateScores, i)
                                             = topAt(modelSorted, i)})
  IN [fit |-> Fit(roundFraction(3333 + matches * 2222, 100), 1), matches |-> matches]

\* the overall match rounded down instead of to the nearest integer
overallMatchFloor(c, b, i) ==
  LET num == 4 * c.n * b.d * i.d + 4 * b.n * c.d * i.d + 2 * i.n * c.d * b.d
      den == 10 * c.d * b.d * i.d
      floored == num \div den
  IN IF floored < 0 THEN 0 ELSE IF floored > 100 THEN 100 ELSE floored

\* Math.max(0, Math.min(100, Math.round(0.4 * c + 0.4 * b + 0.2 * i)))
overallMatch(c, b, i) ==
  LET num == 4 * c.n * b.d * i.d + 4 * b.n * c.d * i.d + 2 * i.n * c.d * b.d
      den == 10 * c.d * b.d * i.d
      rounded == roundFraction(num, den)
  IN IF rounded < 0 THEN 0 ELSE IF rounded > 100 THEN 100 ELSE rounded

\* the error replies of the match engine and of the reports
errorReply(op, result) == [NoReply EXCEPT !.op = op, !.result = result]

\* POST /api/match: by names the id the body carries, modelId the model
ComputeMatch(by, modelId) ==
  LET cognitiveFit == calculateCognitiveMatch(scaleScores, modelScales)
      behavioralFit == calculateBehavioralMatch(scaleScores, modelScales)
      interestsFit == calculateInterestsMatch(scaleScores, modelScales)
  IN /\ reply' =
          IF by = "none" \/ modelId = "" THEN errorReply("match", "InputInvalid")
          ELSE IF by = "unknownAssessmentId"
                  \/ (by = "candidateId" /\ assessment.status # "completed")
          THEN errorReply("match", "AssessmentNotCompleted")
          ELSE IF modelId # "m1" THEN errorReply("match", "ModelNotFound")
          ELSE [op |-> "match", result |-> "ok",
                cognitiveFit |-> cognitiveFit.fit,
                behavioralFit |-> behavioralFit.fit,
                interestsFit |-> interestsFit.fit,
                overallMatch |-> overallMatch(cognitiveFit.fit, behavioralFit.fit,
                                              interestsFit.fit),
                details |-> cognitiveFit.details \o behavioralFit.details,
                distortionScore |-> NoDistortion,
                interviewQuestions |-> <<>>]
     /\ UNCHANGED <<assessment, responses, scaleScores, now, last, strayed, inflight,
                    modelScales, validity, interests, modelVars, estimation>>

\* the loop of calculateDomainMatch of the reports routes
domainMatchLoop(rows, ranges, scaleIds) ==
  LET used == contributing(rows, ranges, scaleIds)
      detail(ms) ==
        LET sc == scoreOf(rows, ms.scaleId)
            pen == reportsScalePenalty(sc.stenScore, ms.targetStenMin, ms.targetStenMax)
        IN [scaleId |-> ms.scaleId, candidateSten |-> sc.stenScore,
            targetMin |-> ms.targetStenMin, targetMax |-> ms.targetStenMax,
            distance |-> pen.distance, withinRange |-> pen.withinRange,
            penalty |-> pen.penalty]
      details == [k \in 1..Len(used) |-> detail(used[k])]
  IN [totalFit |-> SumSeq([k \in 1..Len(used) |-> details[k].penalty * weightOf(used[k])]),
      weightSum |-> SumSeq([k \in 1..Len(used) |-> weightOf(used[k])]),
      details |-> details]

\* calculateDomainMatch of the reports routes: the fit rounded to an integer
calculateDomainMatch(rows, ranges, scaleIds) ==
  LET m == domainMatchLoop(rows, ranges, scaleIds)
  IN [fit |-> IF m.weightSum > 0 THEN Fit(roundFraction(m.totalFit, m.weightSum), 1)
              ELSE Fit(0, 1),
      details |-> m.details]

\* valid: distortionScore.stenScore >= 3
distortionValid(sten) == JsLe(Num(3000), IF sten.kind = "null" THEN Num(0) ELSE sten)

\* the category detectDistortion gives a STEN
detectDistortionCategory(stenScore) ==
  IF stenScore >= 7 THEN "invalid"
  ELSE IF stenScore >= 4 THEN "warning"
  ELSE "valid"

\* GET /api/reports/selection for the candidate of the assessment
SelectionReport(modelId) ==
  LET cognitiveFit == calculateDomainMatch(scaleScores, modelScales, cognitiveScaleIds)
      behavioralFit == calculateDomainMatch(scaleScores, modelScales, behavioralScaleIds)
      interestsFit == calculateDomainMatch(scaleScores, modelScales, interestScaleIds)
  IN /\ reply' =
          IF modelId = "" THEN errorReply("selection", "InputInvalid")
          ELSE IF assessment.status # "completed"
          THEN errorReply("selection", "AssessmentNotCompleted")
          ELSE IF modelId # "m1" THEN errorReply("selection", "ModelNotFound")
          ELSE [op |-> "selection", result |-> "ok",
                cognitiveFit |-> cognitiveFit.fit,
                behavioralFit |-> behavioralFit.fit,
                interestsFit |-> interestsFit.fit,
                overallMatch |-> overallMatch(cognitiveFit.fit, behavioralFit.fit,
                                              interestsFit.fit),
                details |-> cognitiveFit.details \o behavioralFit.details
                              \o interestsFit.details,
                distortionScore |->
                  IF hasScore(scaleScores, "distortion")
                  THEN [present |-> TRUE,
                        sten |-> scoreOf(scaleScores, "distortion").stenScore,
                        valid |-> distortionValid(
                                    scoreOf(scaleScores, "distortion").stenScore)]
                  ELSE NoDistortion,
                interviewQuestions |-> <<>>]
     /\ UNCHANGED <<assessment, responses, scaleScores, now, last, strayed, inflight,
                    modelScales, validity, interests, modelVars, estimation>>

\* the question bank: the ids of the questions of a scale and a direction, in
\* the order of the bank
questionBank ==
  [verbal_skill |-> [high |-> <<"vs_h1", "vs_h2">>, low |-> <<"vs_l1", "vs_l2">>],
   verbal_reasoning |-> [high |-> <<"vr_h1", "vr_h2">>, low |-> <<"vr_l1", "vr_l2">>],
   numerical_ability |-> [high |-> <<"na_h1", "na_h2">>, low |-> <<"na_l1", "na_l2">>],
   numeric_reasoning |-> [high |-> <<"nr_h1", "nr_h2">>, low |-> <<"nr_l1", "nr_l2">>],
   energy_level |-> [high |-> <<"el_h1", "el_h2", "el_h3">>, low |-> <<"el_l1", "el_l2">>],
   assertiveness |-> [high |-> <<"as_h1", "as_h2", "as_h3">>, low |-> <<"as_l1", "as_l2">>],
   sociability |-> [high |-> <<"so_h1", "so_h2">>, low |-> <<"so_l1", "so_l2">>],
   manageability |-> [high |-> <<"ma_h1", "ma_h2">>, low |-> <<"ma_l1", "ma_l2">>],
   attitude |-> [high |-> <<"at_h1", "at_h2">>, low |-> <<"at_l1", "at_l2">>],
   decisiveness |-> [high |-> <<"de_h1", "de_h2">>, low |-> <<"de_l1", "de_l2">>],
   accommodating |-> [high |-> <<"ac_h1", "ac_h2">>, low |-> <<"ac_l1", "ac_l2">>],
   independence |-> [high |-> <<"in_h1", "in_h2">>, low |-> <<"in_l1", "in_l2">>],
   objective_judgment |-> [high |-> <<"oj_h1", "oj_h2">>, low |-> <<"oj_l1", "oj_l2">>],
   enterprising |-> [high |-> <<"en_h1", "en_h2">>, low |-> <<"en_l1", "en_l2">>],
   financial_admin |-> [high |-> <<"fa_h1", "fa_h2">>, low |-> <<"fa_l1", "fa_l2">>],
   people_service |-> [high |-> <<"ps_h1", "ps_h2">>, low |-> <<"ps_l1", "ps_l2">>],
   technical |-> [high |-> <<"te_h1", "te_h2">>, low |-> <<"te_l1", "te_l2">>],
   mechanical |-> [high |-> <<"me_h1", "me_h2">>, low |-> <<"me_l1", "me_l2">>],
   creative |-> [high |-> <<"cr_h1", "cr_h2">>, low |-> <<"cr_l1", "cr_l2">>]]

\* scaleId.replace(/_/g, ' ')
underscoresToSpaces(scaleId) ==
  CASE scaleId = "learning_index" -> "learning index"
    [] OTHER -> scaleId

\* the questions of a scale and a direction: those of the bank by their ids,
\* the two generic ones by their text
getInterviewQuestions(scaleId, direction) ==
  IF scaleId \in DOMAIN questionBank
  THEN questionBank[scaleId][direction]
  ELSE <<"Tell me about your experience with " \o underscoresToSpaces(scaleId) \o ".",
         "How would you describe your approach to " \o underscoresToSpaces(scaleId)
           \o " in your work?">>

\* score.stenScore > modelScale.targetStenMax ? 'high' : 'low'
directionOf(stenScore, targetStenMax) ==
  IF numberOf(stenScore) > targetStenMax THEN "high" ELSE "low"

\* the deviations of the interview report, in the order of the model ranges
RECURSIVE deviationsOf(_, _)
deviationsOf(rows, ranges) ==
  IF ranges = <<>> THEN <<>>
  ELSE LET modelScale == Head(ranges)
           score == scoreOf(rows, modelScale.scaleId)
           pen == reportsScalePenalty(score.stenScore, modelScale.targetStenMin,
                                      modelScale.targetStenMax)
           direction == directionOf(score.stenScore, modelScale.targetStenMax)
       IN (IF hasScore(rows, modelScale.scaleId) /\ ~pen.withinRange
           THEN <<[scaleId |-> modelScale.scaleId, direction |-> direction,
                   candidateSten |-> score.stenScore,
                   targetMin |-> modelScale.targetStenMin,
                   targetMax |-> modelScale.targetStenMax,
                   deviation |-> pen.distance,
                   questions |-> getInterviewQuestions(modelScale.scaleId, direction)]>>
           ELSE <<>>)
          \o deviationsOf(rows, Tail(ranges))

\* GET /api/reports/interview for the candidate of the assessment
InterviewReport(modelId) ==
  /\ reply' =
       IF modelId = "" THEN errorReply("interview", "InputInvalid")
       ELSE IF assessment.status # "completed"
       THEN errorReply("interview", "AssessmentNotCompleted")
       ELSE IF modelId # "m1" THEN errorReply("interview", "ModelNotFound")
       ELSE [NoReply EXCEPT !.op = "interview", !.result = "ok",
                            !.interviewQuestions = deviationsOf(scaleScores, modelScales)]
  /\ UNCHANGED <<assessment, responses, scaleScores, now, last, strayed, inflight,
                 modelScales, validity, interests, modelVars, estimation>>

\* a scale_scores row and a model scale range of the match scenarios
matchRow(scaleId, sten) ==
  [id |-> <<scaleId, 0>>, scaleId |-> scaleId, rawScore |-> 0, stenScore |-> sten,
   itemCount |-> 0]

matchRange(scaleId, lo, hi, weight) ==
  [scaleId |-> scaleId, targetStenMin |-> lo, targetStenMax |-> hi, weight |-> weight]

\* the stored STENs: 1..10, and NULL for a cognitive scale
StoredStens == {StenNum(k) : k \in 1..10} \cup {NullNum}

\* the weights a model range is stored with
Weights == ((0 - 1)..MaxWeight) \ {0}

\* the sequences that keep, in order, the ranges of a choice per scale
RECURSIVE rangesOf(_, _)
rangesOf(scaleSeq, choice) ==
  IF scaleSeq = <<>> THEN <<>>
  ELSE (IF choice[Head(scaleSeq)] = 0 THEN <<>>
        ELSE <<matchRange(Head(scaleSeq), 5, 7, choice[Head(scaleSeq)])>>)
       \o rangesOf(Tail(scaleSeq), choice)

\* the scale_scores rows and model ranges the match engine is run on
MatchInputs ==
  \* one scale against every band
  {[scores |-> {matchRow(sc, s)}, ranges |-> <<matchRange(sc, lo, hi, 1)>>] :
     sc \in {"verbal_skill", "assertiveness", "learning_index"},
     s \in StoredStens,
     lo \in 1..10, hi \in 1..10}
  \cup
  \* three scales against the band [5, 7] under every weight
  {[scores |-> {matchRow(sc, StenNum(st[sc])) :
                  sc \in {x \in DOMAIN st : st[x] # 0}},
    ranges |-> rangesOf(<<"verbal_skill", "verbal_reasoning", "energy_level">>, ch)] :
     st \in [{"verbal_skill", "verbal_reasoning", "energy_level"} -> {0, 6, 9}],
     ch \in [{"verbal_skill", "verbal_reasoning", "energy_level"} -> Weights \cup {0}]}
  \cup
  \* interest scales and the distortion scale
  {[scores |-> {matchRow(sc, StenNum(st[sc])) :
                  sc \in {x \in DOMAIN st : st[x] # 0}},
    ranges |-> rg] :
     st \in [{"enterprising", "creative", "distortion"} -> {0, 2, 3, 8}],
     rg \in {<<>>, <<matchRange("enterprising", 7, 9, 1)>>,
              <<matchRange("creative", 1, 3, 1), matchRange("enterprising", 7, 9, 1)>>}}

\* a completed assessment with its scores, or an assessment in progress
InitMatch ==
  /\ \E inp \in MatchInputs : \E status \in {"in_progress", "completed"} :
        /\ assessment = [type |-> "full", status |-> status,
                         currentSection |-> IF status = "completed" THEN "complete"
                                            ELSE "cognitive",
                         currentItemIndex |-> 0, startedAt |-> 0,
                         completedAt |-> IF status = "completed" THEN 0 ELSE NoTime,
                         createdAt |-> 0, expiresAt |-> 0 + SevenDays]
        /\ scaleScores = IF status = "completed" THEN inp.scores ELSE {}
        /\ modelScales = inp.ranges
  /\ responses = <<>>
  /\ now = 0
  /\ last = [op |-> "create", result |-> "ok", item |-> NoItem]
  /\ strayed = FALSE
  /\ inflight = [p \in Procs |-> IdleProc]
  /\ reply = NoReply
  /\ validity = NoValidity
  /\ interests = NoInterests
  /\ NoModels
  /\ estimation = NoEstimation

NextMatch ==
  \/ \E by \in {"assessmentId", "unknownAssessmentId", "candidateId", "none"} :
       \E modelId \in {"m1", "zz", ""} : ComputeMatch(by, modelId)
  \/ \E modelId \in {"m1", "zz", ""} : SelectionReport(modelId)
  \/ \E modelId \in {"m1", "zz", ""} : InterviewReport(modelId)

\* match and selection report requests over stored scores and model ranges
SpecMatch == InitMatch /\ [][NextMatch]_vars

\* --------------------------------------------------------- validity check
\* detectDistortion: the STEN of the distortion items and its category
detectDistortion(resp) ==
  LET stenScore == likertSumToSten(resp, 1, 5)
  IN [stenScore |-> stenScore, category |-> detectDistortionCategory(stenScore)]

\* the pairs (0,1), (2,3), ... of a stream whose two responses are equal
alternatingCount(resp) ==
  Cardinality({k \in 1..Len(resp) : k % 2 = 0 /\ resp[k] = resp[k - 1]})

\* the runs of equal responses in a stream
runsOf(resp) ==
  1 + Cardinality({k \in 2..Len(resp) : resp[k] # resp[k - 1]})

Abs(x) == IF x < 0 THEN 0 - x ELSE x

detectResponsePatterns(resp) ==
  LET n == Len(resp)
      isStraightLine == \A k \in 1..n : resp[k] = resp[1]
      \* alternatingCount / Math.ceil(n / 2) > 0.8
      isAlternating == 10 * alternatingCount(resp) > 8 * ((n + 1) \div 2)
      \* Math.abs(runs - expectedRuns) < 0.3 * expectedRuns, expectedRuns = (2n - 1) / 3
      isRandom == 10 * Abs(3 * runsOf(resp) - (2 * n - 1)) < 3 * (2 * n - 1)
  IN IF n < 5
     THEN [isStraightLine |-> FALSE, isAlternating |-> FALSE, isRandom |-> FALSE,
           recommendation |-> "insufficient_data"]
     ELSE [isStraightLine |-> isStraightLine, isAlternating |-> isAlternating,
           isRandom |-> isRandom,
           recommendation |-> IF isRandom THEN "caution"
                              ELSE IF isAlternating \/ isStraightLine THEN "review"
                              ELSE "acceptable"]

\* the recommendation with the response patterns left out
recommendationOfDistortion(distortion, patterns) ==
  IF distortion.category = "invalid" THEN "discard"
  ELSE IF distortion.category = "warning" THEN "interview"
  ELSE "use"

recommendationOf(distortion, patterns) ==
  IF distortion.category = "invalid" \/ patterns.recommendation = "caution"
  THEN "discard"
  ELSE IF distortion.category = "warning" \/ patterns.recommendation = "review"
  THEN "interview"
  ELSE "use"

checkResponseValidity(distortionResponses, allBehavioralResponses) ==
  LET distortion == detectDistortion(distortionResponses)
      patterns == detectResponsePatterns(allBehavioralResponses)
      recommendation == recommendationOf(distortion, patterns)
  IN [called |-> TRUE, valid |-> (recommendation = "use"),
      recommendation |-> recommendation,
      distortion |-> distortion, patterns |-> patterns]

CheckResponseValidity ==
  /\ validity' = [validity EXCEPT !.result =
                     checkResponseValidity(validity.distortionResponses,
                                           validity.allBehavioralResponses)]
  /\ UNCHANGED <<assessment, responses, scaleScores, now, last, strayed, inflight,
                 modelScales, reply, interests, modelVars, estimation>>

\* the sequences over a set of values up to a length
Streams(values, maxLen) == UNION {[1..n -> values] : n \in 0..maxLen}

\* the distortion streams: short ones, and fifteen responses of 5
DistortionStreams ==
  Streams({1, 3, 5}, 2) \cup {[k \in 1..DistortionItems |-> 5]}

InitValidity ==
  /\ validity \in [distortionResponses : DistortionStreams,
                    allBehavioralResponses : Streams(1..3, MaxStream),
                    result : {NoResult}]
  /\ assessment = [type |-> "full", status |-> "in_progress",
                   currentSection |-> "behavioral", currentItemIndex |-> 0,
                   startedAt |-> 0, completedAt |-> NoTime,
                   createdAt |-> 0, expiresAt |-> 0 + SevenDays]
  /\ responses = <<>>
  /\ scaleScores = {}
  /\ now = 0
  /\ last = [op |-> "create", result |-> "ok", item |-> NoItem]
  /\ strayed = FALSE
  /\ inflight = [p \in Procs |-> IdleProc]
  /\ modelScales = <<>>
  /\ reply = NoReply
  /\ interests = NoInterests
  /\ NoModels
  /\ estimation = NoEstimation

NextValidity == CheckResponseValidity

\* checkResponseValidity applied to distortion and behavioral streams
SpecValidity == InitValidity /\ [][NextValidity]_vars

\* -------------------------------------------------------- interest scoring
\* percentileToSten(((n - rank + 0.5) / n) * 100): the STEN of a rank among n
\* scales, n up to 6
RankStens ==
  << <<6>>, <<7, 4>>, <<7, 6, 4>>, <<8, 6, 5, 3>>, <<8, 7, 6, 4, 3>>,
     <<8, 7, 6, 5, 4, 3>> >>

\* Object.keys(ipsativeScores): the scales in the order the pairs name them
RECURSIVE scaleKeys(_, _)
scaleKeys(pairs, keys) ==
  IF pairs = <<>> THEN keys
  ELSE LET withA == IF Head(pairs).scaleA \in SeqToSet(keys) THEN keys
                    ELSE Append(keys, Head(pairs).scaleA)
           withB == IF Head(pairs).scaleB \in SeqToSet(withA) THEN withA
                    ELSE Append(withA, Head(pairs).scaleB)
       IN scaleKeys(Tail(pairs), withB)

\* pairs.find(p => p.pairId === response.pairId): its index, 0 for undefined
findPair(pairs, pairId) ==
  IF \E k \in 1..Len(pairs) : pairs[k].pairId = pairId
  THEN CHOOSE k \in 1..Len(pairs) :
         /\ pairs[k].pairId = pairId
         /\ \A j \in 1..(k - 1) : pairs[j].pairId # pairId
  ELSE 0

\* the scale a response counts for, Null when its pair is not found
winnerOf(response, pairs) ==
  LET k == findPair(pairs, response.pairId)
  IN IF k = 0 THEN Null
     ELSE IF response.choice = "A" THEN pairs[k].scaleA ELSE pairs[k].scaleB

ipsativeScore(resps, pairs, scale) ==
  Cardinality({k \in 1..Len(resps) : winnerOf(resps[k], pairs) = scale})

scoreInterests(resps, pairs) ==
  LET scales == scaleKeys(pairs, <<>>)
      entries == [k \in 1..Len(scales) |->
                    [scaleId |-> scales[k], raw |-> ipsativeScore(resps, pairs, scales[k])]]
      sortedScales == sortDescending(<<>>, entries)
      rankOf(scale) == CHOOSE k \in 1..Len(sortedScales) : sortedScales[k].scaleId = scale
  IN [k \in 1..Len(scales) |->
        [scaleId |-> scales[k], rawScore |-> entries[k].raw, rank |-> rankOf(scales[k]),
         sten |-> RankStens[Len(scales)][rankOf(scales[k])]]]

\* Object.entries(scores).sort((a, b) => b[1].sten - a[1].sten).slice(0, 3)
getTopInterests(scores) ==
  LET sorted == sortDescending(<<>>, [k \in 1..Len(scores) |->
                   [scaleId |-> scores[k].scaleId, raw |-> scores[k].sten]])
  IN [k \in 1..(IF Len(sorted) < 3 THEN Len(sorted) ELSE 3) |-> sorted[k].scaleId]

ScoreInterests ==
  /\ interests' = [interests EXCEPT
                     !.called = TRUE,
                     !.scores = scoreInterests(interests.responses, interests.pairs),
                     !.top = getTopInterests(scoreInterests(interests.responses,
                                                            interests.pairs))]
  /\ UNCHANGED <<assessment, responses, scaleScores, now, last, strayed, inflight,
                 modelScales, reply, validity, modelVars, estimation>>

\* the forced-choice pairs of the interest items, in the order of the library
LibraryPairs ==
  <<[pairId |-> "p1", scaleA |-> "enterprising", scaleB |-> "financial_admin"],
    [pairId |-> "p2", scaleA |-> "people_service", scaleB |-> "technical"],
    [pairId |-> "p3", scaleA |-> "mechanical", scaleB |-> "creative"]>>

PairIds == <<"p1", "p2", "p3", "p4", "p5", "p6">>

\* the lists of up to MaxPairs pairs of two different scales out of three,
\* numbered p1, p2, ... in the order of the list
PairLists ==
  LET three == {"creative", "enterprising", "technical"}
      twoOf == {pr \in three \X three : pr[1] # pr[2]}
  IN {[k \in DOMAIN q |->
         [pairId |-> PairIds[k], scaleA |-> q[k][1], scaleB |-> q[k][2]]] :
        q \in UNION {[1..m -> twoOf] : m \in 1..MaxPairs}}

InitInterests ==
  /\ \E prs \in PairLists \cup {LibraryPairs} :
       \E rs \in Streams([pairId : {"p1", "p2", "zz"}, choice : {"A", "B"}], MaxChoices) :
          interests = [NoInterests EXCEPT !.responses = rs, !.pairs = prs]
  /\ assessment = [type |-> "interests_only", status |-> "in_progress",
                   currentSection |-> "interests", currentItemIndex |-> 0,
                   startedAt |-> 0, completedAt |-> NoTime,
                   createdAt |-> 0, expiresAt |-> 0 + SevenDays]
  /\ responses = <<>>
  /\ scaleScores = {}
  /\ now = 0
  /\ last = [op |-> "create", result |-> "ok", item |-> NoItem]
  /\ strayed = FALSE
  /\ inflight = [p \in Procs |-> IdleProc]
  /\ modelScales = <<>>
  /\ reply = NoReply
  /\ validity = NoValidity
  /\ NoModels
  /\ estimation = NoEstimation

NextScoreInterests == ScoreInterests

\* scoreInterests applied to forced-choice responses and pairs
SpecScoreInterests == InitInterests /\ [][NextScoreInterests]_vars

\* ------------------------------------------------------ performance models
\* model_<Date.now()>_<random>: the id of the n-th model created
modelIdOf(n) == <<"model", n>>

\* the row stored for a range of a request body; a missing field reads as 0
\* (range.targetStenMin || 4, range.targetStenMax || 7, range.weight || 1)
storedRange(modelId, range) ==
  [modelId |-> modelId, scaleId |-> range.scaleId,
   targetStenMin |-> IF range.targetStenMin = 0 THEN 4 ELSE range.targetStenMin,
   targetStenMax |-> IF range.targetStenMax = 0 THEN 7 ELSE range.targetStenMax,
   weight |-> IF range.weight = 0 THEN 1 ELSE range.weight]

\* a range of a request body; 0 stands for a field that is left out
rangeInput(targetStenMin, targetStenMax, weight) ==
  [scaleId |-> "verbal_skill", targetStenMin |-> targetStenMin,
   targetStenMax |-> targetStenMax, weight |-> weight]

\* the scaleRanges a client puts into a request body
RangeLists ==
  {<<>>,
   <<rangeInput(5, 7, 1)>>,
   <<rangeInput(9, 2, 1)>>,
   <<rangeInput(0, 0, 0)>>,
   <<rangeInput(5, 11, 0 - 1)>>,
   <<rangeInput(5, 7, 1), rangeInput(3, 4, 2)>>}

\* POST /api/performance-models
CreateModel(name, scaleRanges) ==
  /\ IF name = ""
     THEN UNCHANGED <<performanceModels, performanceModelScales, modelCount>>
     ELSE /\ modelCount < MaxModels
          /\ modelCount' = modelCount + 1
          /\ performanceModels' = performanceModels \cup {modelIdOf(modelCount + 1)}
          /\ performanceModelScales' = performanceModelScales \o
               [k \in 1..Len(scaleRanges) |->
                  storedRange(modelIdOf(modelCount + 1), scaleRanges[k])]
  /\ UNCHANGED <<modelRequests, foreignKeys>>
  /\ UNCHANGED <<assessment, responses, scaleScores, now, last, strayed, inflight,
                 modelScales, reply, validity, interests, estimation>>

\* the scale of a question of the Job Analysis Survey, Null for an unknown id
jasQuestionScale(questionId) ==
  CASE questionId = "cog_demand" -> "learning_index"
    [] questionId = "verbal_demand" -> "verbal_skill"
    [] questionId = "numerical_demand" -> "numerical_ability"
    [] questionId \in SeqToSet(behavioralScaleIds) -> questionId
    [] questionId \in SeqToSet(interestScaleIds) -> questionId
    [] OTHER -> Null

responseToStenRange(responseValue) ==
  IF responseValue <= 2 THEN [min |-> 1, max |-> 4]
  ELSE IF responseValue <= 4 THEN [min |-> 4, max |-> 6]
  ELSE IF responseValue <= 5 THEN [min |-> 5, max |-> 7]
  ELSE [min |-> 7, max |-> 10]

\* the ranges built from the answers of a survey, in the order of the answers
RECURSIVE jasScaleRanges(_)
jasScaleRanges(answers) ==
  IF answers = <<>> THEN <<>>
  ELSE (IF jasQuestionScale(Head(answers).questionId) # Null
        THEN <<[scaleId |-> jasQuestionScale(Head(answers).questionId),
                targetStenMin |-> responseToStenRange(Head(answers).value).min,
                targetStenMax |-> responseToStenRange(Head(answers).value).max,
                weight |-> 1]>>
        ELSE <<>>)
       \o jasScaleRanges(Tail(answers))

\* POST /api/jas
SubmitJas(roleName, answers) ==
  /\ IF roleName = ""
     THEN UNCHANGED <<performanceModels, performanceModelScales, modelCount>>
     ELSE /\ modelCount < MaxModels
          /\ modelCount' = modelCount + 1
          /\ performanceModels' = performanceModels \cup {modelIdOf(modelCount + 1)}
          /\ performanceModelScales' = performanceModelScales \o
               [k \in 1..Len(jasScaleRanges(answers)) |->
                  [modelId |-> modelIdOf(modelCount + 1),
                   scaleId |-> jasScaleRanges(answers)[k].scaleId,
                   targetStenMin |-> jasScaleRanges(answers)[k].targetStenMin,
                   targetStenMax |-> jasScaleRanges(answers)[k].targetStenMax,
                   weight |-> jasScaleRanges(answers)[k].weight]]
  /\ UNCHANGED <<modelRequests, foreignKeys>>
  /\ UNCHANGED <<assessment, responses, scaleScores, now, last, strayed, inflight,
                 modelScales, reply, validity, interests, estimation>>

\* the rows of the table without those of a model
withoutModel(rows, id) == SelectSeq(rows, LAMBDA row : row.modelId # id)

sessionVars == <<assessment, responses, scaleScores, now, last, strayed, inflight,
                 modelScales, reply, validity, interests, estimation>>

\* PUT /api/performance-models/:id, select of the model
PutSelect(id, hasRanges, scaleRanges) ==
  /\ modelRequests.put.pc \in {"idle", "done"}
  /\ modelRequests' = [modelRequests EXCEPT !.put =
       IF id \notin performanceModels
       THEN [IdleRequest EXCEPT !.pc = "done", !.id = id, !.result = "NotFound"]
       ELSE [pc |-> "update", id |-> id, hasRanges |-> hasRanges,
             scaleRanges |-> scaleRanges, result |-> Null]]
  /\ UNCHANGED <<performanceModels, performanceModelScales, modelCount, foreignKeys>>
  /\ UNCHANGED sessionVars

\* update of name, description, category of the model row, if it is still there
PutUpdate ==
  /\ modelRequests.put.pc = "update"
  /\ modelRequests' = [modelRequests EXCEPT !.put =
       IF modelRequests.put.hasRanges
       THEN [modelRequests.put EXCEPT !.pc = "deleteRanges"]
       ELSE [modelRequests.put EXCEPT !.pc = "done", !.result = "ok"]]
  /\ UNCHANGED <<performanceModels, performanceModelScales, modelCount, foreignKeys>>
  /\ UNCHANGED sessionVars

\* delete of the ranges of the model
PutDeleteRanges ==
  /\ modelRequests.put.pc = "deleteRanges"
  /\ performanceModelScales' = withoutModel(performanceModelScales, modelRequests.put.id)
  /\ modelRequests' = [modelRequests EXCEPT !.put =
       IF modelRequests.put.scaleRanges = <<>>
       THEN [modelRequests.put EXCEPT !.pc = "done", !.result = "ok"]
       ELSE [modelRequests.put EXCEPT !.pc = "insert"]]
  /\ UNCHANGED <<performanceModels, modelCount, foreignKeys>>
  /\ UNCHANGED sessionVars

\* insert of the next range of the body
PutInsert ==
  LET req == modelRequests.put
  IN /\ req.pc = "insert"
     /\ IF foreignKeys /\ req.id \notin performanceModels
        THEN /\ modelRequests' = [modelRequests EXCEPT !.put.pc = "done",
                                                       !.put.result = "InternalError"]
             /\ UNCHANGED performanceModelScales
        ELSE /\ performanceModelScales' =
                  Append(performanceModelScales, storedRange(req.id, Head(req.scaleRanges)))
             /\ modelRequests' = [modelRequests EXCEPT !.put =
                  IF Tail(req.scaleRanges) = <<>>
                  THEN [req EXCEPT !.pc = "done", !.result = "ok",
                                   !.scaleRanges = <<>>]
                  ELSE [req EXCEPT !.scaleRanges = Tail(req.scaleRanges)]]
     /\ UNCHANGED <<performanceModels, modelCount, foreignKeys>>
     /\ UNCHANGED sessionVars

\* DELETE /api/performance-models/:id, select of the model
DeleteSelect(id) ==
  /\ modelRequests.del.pc \in {"idle", "done"}
  /\ modelRequests' = [modelRequests EXCEPT !.del =
       IF id \notin performanceModels
       THEN [IdleRequest EXCEPT !.pc = "done", !.id = id, !.result = "NotFound"]
       ELSE [IdleRequest EXCEPT !.pc = "deleteRanges", !.id = id]]
  /\ UNCHANGED <<performanceModels, performanceModelScales, modelCount, foreignKeys>>
  /\ UNCHANGED sessionVars

\* delete of the ranges of the model
DeleteRanges ==
  /\ modelRequests.del.pc = "deleteRanges"
  /\ performanceModelScales' = withoutModel(performanceModelScales, modelRequests.del.id)
  /\ modelRequests' = [modelRequests EXCEPT !.del.pc = "deleteModel"]
  /\ UNCHANGED <<performanceModels, modelCount, foreignKeys>>
  /\ UNCHANGED sessionVars

\* delete of the model row; an enforced foreign key rejects it while a range
\* of the model is stored
DeleteModel ==
  LET req == modelRequests.del
  IN /\ req.pc = "deleteModel"
     /\ IF foreignKeys /\ \E k \in 1..Len(performanceModelScales) :
                             performanceModelScales[k].modelId = req.id
        THEN /\ modelRequests' = [modelRequests EXCEPT !.del.pc = "done",
                                                       !.del.result = "InternalError"]
             /\ UNCHANGED performanceModels
        ELSE /\ performanceModels' = performanceModels \ {req.id}
             /\ modelRequests' = [modelRequests EXCEPT !.del.pc = "done",
                                                       !.del.result = "ok"]
     /\ UNCHANGED <<performanceModelScales, modelCount, foreignKeys>>
     /\ UNCHANGED sessionVars

\* the ids a client names: those of the models created, and an unknown one
RequestIds == {modelIdOf(n) : n \in 1..MaxModels} \cup {<<"model", 0>>}

\* the answers of a survey: one known and one unknown question
JasAnswers ==
  {<<>>, <<[questionId |-> "zz", value |-> 5]>>,
   <<[questionId |-> "verbal_demand", value |-> 7],
     [questionId |-> "zz", value |-> 1]>>}
    \cup {<<[questionId |-> "verbal_demand", value |-> v]>> : v \in {1, 3, 5, 7}}

\* foreign keys are enforced only if the build of SQLite enforces them by
\* default: the connection never sets the pragma
InitModels ==
  /\ NoModelRows
  /\ foreignKeys \in BOOLEAN
  /\ estimation = NoEstimation
  /\ assessment = [type |-> "full", status |-> "not_started",
                   currentSection |-> "cognitive", currentItemIndex |-> 0,
                   startedAt |-> NoTime, completedAt |-> NoTime,
                   createdAt |-> 0, expiresAt |-> 0 + SevenDays]
  /\ responses = <<>>
  /\ scaleScores = {}
  /\ now = 0
  /\ last = [op |-> "create", result |-> "ok", item |-> NoItem]
  /\ strayed = FALSE
  /\ inflight = [p \in Procs |-> IdleProc]
  /\ modelScales = <<>>
  /\ reply = NoReply
  /\ validity = NoValidity
  /\ interests = NoInterests

NextModels ==
  \/ \E name \in {"", "role"} : \E scaleRanges \in RangeLists :
       CreateModel(name, scaleRanges)
  \/ \E roleName \in {"", "role"} : \E answers \in JasAnswers :
       SubmitJas(roleName, answers)
  \/ \E id \in RequestIds : \E hasRanges \in BOOLEAN : \E scaleRanges \in RangeLists :
       PutSelect(id, hasRanges, IF hasRanges THEN scaleRanges ELSE <<>>)
  \/ PutUpdate
  \/ PutDeleteRanges
  \/ PutInsert
  \/ \E id \in RequestIds : DeleteSelect(id)
  \/ DeleteRanges
  \/ DeleteModel

\* create, survey, update and delete requests on the performance models, the
\* update and the delete one repository call at a time
SpecModels == InitModels /\ [][NextModels]_vars

\* ------------------------- the responses and the items the estimator is handed
\* rows of the items table of two cognitive scales, in rowid order
CognitiveBank ==
  << [id |-> "v1", scaleId |-> "verbal_skill", domain |-> "cognitive",
      isDistortion |-> FALSE, isActive |-> TRUE, correctAnswer |-> "A"],
     [id |-> "v2", scaleId |-> "verbal_skill", domain |-> "cognitive",
      isDistortion |-> FALSE, isActive |-> TRUE, correctAnswer |-> "A"],
     [id |-> "n1", scaleId |-> "numerical_ability", domain |-> "cognitive",
      isDistortion |-> FALSE, isActive |-> TRUE, correctAnswer |-> "A"] >>

\* the cognitive scales of these items that are not composite
CognitiveScaleIds == {"verbal_skill", "numerical_ability"}

\* the loop of estimateAbility reads responses[i] together with items[i]
estimatorPairs(resp, its) ==
  [k \in 1..Len(resp) |->
     [response |-> resp[k],
      item |-> IF k <= Len(its) THEN its[k].id ELSE "undefined"]]

\* rows.map(r => r.isCorrect ? 1 : 0)
correctnessOf(rows) ==
  [k \in 1..Len(rows) |-> IF rows[k].isCorrect = "true" THEN 1 ELSE 0]

\* rows.map(r => its.find(i => i.id === r.itemId))
foundItems(rows, its) ==
  [k \in 1..Len(rows) |-> CHOOSE it \in SeqToSet(its) : it.id = rows[k].itemId]

\* complete: the responses of a scale, and its call of the estimator
completeScaleResponses(bank, resps, scaleId) ==
  LET cognitiveResponses ==
        SelectSeq(resps, LAMBDA r : \E it \in SeqToSet(bank) :
                                       it.id = r.itemId /\ it.domain = "cognitive")
      scaleItems == SelectSeq(bank, LAMBDA it : it.scaleId = scaleId
                                                /\ it.domain = "cognitive")
  IN responsesToItems(cognitiveResponses, scaleItems)

completePairs(bank, resps, scaleId) ==
  LET scaleItems == SelectSeq(bank, LAMBDA it : it.scaleId = scaleId
                                                /\ it.domain = "cognitive")
  IN estimatorPairs(correctnessOf(completeScaleResponses(bank, resps, scaleId)),
                    scaleItems)

\* next: the cognitive responses, and its call of the estimator
nextPairs(bank, resps) ==
  LET allCognitiveItems == SelectSeq(bank, LAMBDA it : it.domain = "cognitive"
                                                       /\ it.isActive)
      cognitiveResponses == responsesToItems(resps, allCognitiveItems)
      respItems == foundItems(cognitiveResponses, allCognitiveItems)
  IN estimatorPairs(correctnessOf(cognitiveResponses), respItems)

\* respond: the stored cognitive responses and the new one, and its call of
\* the estimator
respondPairs(bank, resps, row) ==
  LET cognitiveItems == SelectSeq(bank, LAMBDA it : it.domain = "cognitive"
                                                    /\ it.isActive)
      cognitiveResponses == responsesToItems(resps, cognitiveItems)
      respItems == foundItems(responsesToItems(Append(cognitiveResponses, row),
                                               cognitiveItems), cognitiveItems)
      responsePattern == Append(correctnessOf(cognitiveResponses),
                                IF row.isCorrect = "true" THEN 1 ELSE 0)
  IN estimatorPairs(responsePattern, respItems)

\* respond for an unanswered cognitive item: theta is estimated, the row inserted
EstimateOnRespond(itemId, txt) ==
  LET item == CHOOSE it \in SeqToSet(CognitiveBank) : it.id = itemId
      row == [itemId |-> itemId, isCorrect |-> isCorrectOf(item, txt)]
  IN /\ Len(estimation.responses) < MaxAdministered
     /\ itemId \notin answeredItemIds(estimation.responses)
     /\ estimation' = [responses |-> Append(estimation.responses, row),
                       op |-> "respond",
                       pairs |-> respondPairs(CognitiveBank, estimation.responses, row),
                       answered |-> Append(estimation.responses, row)]
     /\ UNCHANGED <<sessionState, modelVars>>

\* next in the cognitive section, with at least one cognitive response
EstimateOnNext ==
  /\ Len(estimation.responses) > 0
  /\ estimation' = [estimation EXCEPT
       !.op = "next",
       !.pairs = nextPairs(CognitiveBank, estimation.responses),
       !.answered = estimation.responses]
  /\ UNCHANGED <<sessionState, modelVars>>

\* complete scoring a cognitive scale that has a response
EstimateOnComplete(scaleId) ==
  LET scaleResponses == completeScaleResponses(CognitiveBank, estimation.responses,
                                               scaleId)
  IN /\ Len(scaleResponses) > 0
     /\ estimation' = [estimation EXCEPT
          !.op = "complete",
          !.pairs = completePairs(CognitiveBank, estimation.responses, scaleId),
          !.answered = scaleResponses]
     /\ UNCHANGED <<sessionState, modelVars>>

InitEstimation ==
  /\ assessment = [type |-> "cognitive_only", status |-> "in_progress",
                   currentSection |-> "cognitive", currentItemIndex |-> 0,
                   startedAt |-> 0, completedAt |-> NoTime,
                   createdAt |-> 0, expiresAt |-> 0 + SevenDays]
  /\ responses = <<>>
  /\ scaleScores = {}
  /\ now = 0
  /\ last = [op |-> "create", result |-> "ok", item |-> NoItem]
  /\ strayed = FALSE
  /\ inflight = [p \in Procs |-> IdleProc]
  /\ modelScales = <<>>
  /\ reply = NoReply
  /\ validity = NoValidity
  /\ interests = NoInterests
  /\ NoModels
  /\ estimation = NoEstimation

NextEstimation ==
  \/ \E k \in 1..Len(CognitiveBank) : \E txt \in {"\" a\"", "\"B\""} :
       EstimateOnRespond(CognitiveBank[k].id, txt)
  \/ EstimateOnNext
  \/ \E scaleId \in CognitiveScaleIds : EstimateOnComplete(scaleId)

\* cognitive items answered once each in any order, with the calls of the
\* estimator by respond, next and complete
SpecEstimation == InitEstimation /\ [][NextEstimation]_vars

\* ---------------------------------------------------------- properties
\* the active items of a section, in the order next reads them
sectionItems(section) ==
  CASE section = "cognitive" -> getCognitiveItems
    [] section = "behavioral" -> getBehavioralItems
    [] section = "interests" -> getInterestItems
    [] OTHER -> <<>>

\* C1: once a started assessment is completed and has its ScaleScore rows, a
\* further complete leaves the set of ScaleScore rows as it is.
C1_CompleteIdempotent ==
  [][(assessment.status = "completed" /\ assessment.startedAt # NoTime
        /\ scaleScores # {})
       => scaleScores' = scaleScores]_vars

\* C2: an assessment whose status is completed has its ScaleScore rows.
C2_CompletedHasScores ==
  assessment.status = "completed"
    => \E r \in scaleScores : r.scaleId = "learning_index"

\* C3: start on an assessment that is in_progress leaves status, startedAt,
\* currentSection and currentItemIndex unchanged.
C3_StartKeepsProgress ==
  [][(assessment.status = "in_progress" /\ last'.op = "start")
       => assessment' = assessment]_vars

\* C4: an assessment holds at most one Response per item.
C4_OneResponsePerItem ==
  \A j, k \in 1..Len(responses) :
     responses[j].itemId = responses[k].itemId => j = k

\* C5: when two racing respond requests for two different items have both been
\* accepted and answered, both responses are stored and currentItemIndex has
\* grown by exactly 2.
C5_RespondSerializable ==
  (/\ \A p \in Procs : inflight[p].pc = "done" /\ inflight[p].result = "ok"
   /\ inflight[1].itemId # inflight[2].itemId)
    => (Len(responses) = 2 /\ assessment.currentItemIndex = 2)

\* C6: past expiresAt, next and respond answer AssessmentExpired, append no
\* Response and do not advance the session.
C6_ExpiredObserved ==
  [][(now > assessment.expiresAt /\ assessment.status = "in_progress"
        /\ last'.op \in {"next", "respond"} /\ last' # last)
       => (/\ last'.result = "AssessmentExpired"
           /\ responses' = responses
           /\ assessment' = assessment)]_vars

\* C7: the item next returns has no recorded response in the assessment.
C7_NextItemUnanswered ==
  (last.op = "next" /\ last.result = "item")
    => last.item \notin answeredItemIds(responses)

\* C7 witness: next returns an item behind recorded responses.
C7_Witness ==
  /\ last.op = "next" /\ last.result = "item"
  /\ Len(responses) > 0
  /\ last.item \notin answeredItemIds(responses)

\* C8: complete on an assessment that is not_started or expired is rejected as
\* StateInvalid, creates no ScaleScore row and leaves the assessment unchanged.
C8_CompleteNeedsInProgress ==
  [][(assessment.status \in {"not_started", "expired"} /\ last'.op = "complete")
       => (/\ last'.result = "StateInvalid"
           /\ scaleScores' = scaleScores
           /\ assessment' = assessment)]_vars

\* C9: for an examinee who answers every item that next returns, next never
\* answers an in_progress assessment with an error.
C9_NextNeverErrors ==
  ~strayed => ~(last.op = "next" /\ last.result = "NoItems")

\* C10: in the behavioral and interests sections the item next returns to an
\* examinee who answers each returned item is the first unanswered active item
\* of the section.
C10_FirstUnanswered ==
  (~strayed /\ last.op = "next" /\ last.result = "item"
     /\ assessment.currentSection \in {"behavioral", "interests"})
    => last.item = Unanswered(sectionItems(assessment.currentSection), responses)[1].id

\* the sections an assessment of a type goes through, in order
C11_Sections(type) ==
  CASE type = "full" -> <<"cognitive", "behavioral", "interests">>
    [] type = "cognitive_only" -> <<"cognitive">>
    [] type = "behavioral_only" -> <<"behavioral">>
    [] OTHER -> <<"interests">>

\* C11: start on a not_started assessment sets status in_progress, index 0 and
\* the first section of the type; a step of next that changes the assessment
\* moves it to the following section of its type with index 0, or from the
\* last section of its type to completed; an in_progress assessment is never
\* in a section outside its type.
C11_SectionOrder ==
  [][LET secs == C11_Sections(assessment.type)
     IN /\ (assessment.status = "not_started" /\ last'.op = "start")
             => (/\ assessment'.status = "in_progress"
                 /\ assessment'.currentItemIndex = 0
                 /\ assessment'.currentSection = secs[1])
        /\ (last'.op = "next" /\ assessment' # assessment)
             => \E k \in 1..Len(secs) :
                   /\ assessment.currentSection = secs[k]
                   /\ IF k < Len(secs)
                      THEN assessment' = [assessment EXCEPT !.currentSection = secs[k + 1],
                                                            !.currentItemIndex = 0]
                      ELSE /\ assessment'.status = "completed"
                           /\ assessment'.currentSection = assessment.currentSection
        /\ assessment'.status = "in_progress"
             => assessment'.currentSection \in SeqToSet(secs)]_vars

\* C11 witness: next has taken a full assessment through the cognitive, the
\* behavioral and the interests section to completed.
C11_Witness ==
  /\ assessment.type = "full" /\ assessment.status = "completed"
  /\ assessment.currentSection = "interests"
  /\ last.op = "next" /\ last.result = "sectionComplete"
  /\ ItemIds \subseteq answeredItemIds(responses)

\* C12: in the cognitive section next reports the section complete only with
\* at least 5 cognitive responses, always with 20 or more, and between 5 and 19
\* exactly when the SEM is at most 0.35; the stop rule called without minItems,
\* maxItems and targetSEM decides as with 5, 20 and 0.35.
C12_StopRule ==
  [][(/\ assessment.status = "in_progress" /\ assessment.currentSection = "cognitive"
      /\ last'.op = "next" /\ <<last, assessment>>' # <<last, assessment>>)
     => LET cognitiveResponses == responsesToItems(responses, getCognitiveItems)
            n == Len(cognitiveResponses)
            respItems == [k \in 1..n |-> ItemById(cognitiveResponses[k].itemId)]
            pattern == [k \in 1..n |->
                          IF cognitiveResponses[k].isCorrect = "true" THEN 1 ELSE 0]
            theta == IF n > 0 THEN estimateAbility(pattern, respItems) ELSE Num(0)
        IN /\ last'.result = "sectionComplete" => n >= 5
           /\ n >= 20 => last'.result = "sectionComplete"
           /\ (n >= 5 /\ n <= 19)
                => (last'.result = "sectionComplete"
                      <=> JsLe(getSEM(theta, respItems), Num(350)))
           /\ shouldStopTest(theta, respItems, DefaultMinItems, DefaultMaxItems,
                             DefaultTargetSEM)
                = shouldStopTest(theta, respItems, 5, 20, 350)]_vars

\* C13: the first complete of a started assessment leaves exactly one ScaleScore
\* row for every non-composite scale other than distortion, exactly one for
\* learning_index, and a distortion row iff a distortion item was answered.
C13_OneRowPerScale ==
  [][(/\ assessment.status = "in_progress" /\ scaleScores = {}
      /\ last'.op = "complete" /\ last'.result = "ok")
     => LET rowsOf(scaleId) == {r \in scaleScores' : r.scaleId = scaleId}
        IN /\ \A k \in 1..Len(ScaleBank) :
                 ScaleBank[k].type # "distortion"
                   => Cardinality(rowsOf(ScaleBank[k].id)) = 1
           /\ (rowsOf("distortion") # {}
                 <=> \E j \in 1..Len(responses) :
                        ItemById(responses[j].itemId).isDistortion)
           /\ Cardinality(rowsOf("distortion")) <= 1]_vars

\* C14: every ScaleScore row holds an integer stenScore between 1 and 10.
C14_StenInRange ==
  \A r \in scaleScores :
     /\ r.stenScore.kind = "num"
     /\ \E k \in 1..10 : r.stenScore.v = 1000 * k

\* the details of a reply whose STEN is an integer in 1..10 and whose band has
\* targetMin <= targetMax
C15_Details ==
  {k \in 1..Len(reply.details) :
     /\ reply.details[k].candidateSten.kind = "num"
     /\ reply.details[k].targetMin <= reply.details[k].targetMax}

\* C15: for a STEN s in 1..10 and a band [L, U] with L <= U the scale penalty has
\* distance d = max(0, L - s) + max(0, s - U), withinRange iff L <= s <= U, and
\* penalty max(0, 1 - (0.15 d + 0.05 d^2)): 1 for d = 0, 0.80 for d = 1, 0.10 for
\* d = 3, 0 for d >= 5, within [0, 1], and no larger than the penalty of any
\* STEN nearer to the band.
C15_ScalePenalty ==
  \A k \in C15_Details :
     LET det == reply.details[k]
         st == det.candidateSten.v \div 1000
         lo == det.targetMin
         hi == det.targetMax
         d == (IF lo > st THEN lo - st ELSE 0) + (IF st > hi THEN st - hi ELSE 0)
     IN /\ det.distance = d
        /\ det.withinRange <=> (lo <= st /\ st <= hi)
        /\ 100 - (15 * d + 5 * d * d) >= 0 => det.penalty = 100 - (15 * d + 5 * d * d)
        /\ 100 - (15 * d + 5 * d * d) < 0 => det.penalty = 0
        /\ d = 0 => det.penalty = 100
        /\ d = 1 => det.penalty = 80
        /\ d = 3 => det.penalty = 10
        /\ d >= 5 => det.penalty = 0
        /\ det.penalty >= 0 /\ det.penalty <= 100
        /\ \A nearer \in 1..10 :
              LET other == IF reply.op = "match"
                           THEN calculateScalePenalty(StenNum(nearer), lo, hi)
                           ELSE reportsScalePenalty(StenNum(nearer), lo, hi)
              IN other.distance <= d => other.penalty >= det.penalty

\* C15 witness: a match reply with a scale three STENs below its band.
C15_Witness ==
  \E k \in C15_Details :
     /\ reply.op = "match"
     /\ reply.details[k].distance = 3 /\ reply.details[k].penalty = 10
     /\ reply.details[k].candidateSten.v \div 1000 = reply.details[k].targetMin - 3

\* C16: with no interest ScaleScore and no interest range in the model the
\* interests fit of a match is 33, and with three scales at STEN 6 against the
\* band [5, 7] with weight 1 the overall match is 87.
C16_NoInterestsFit ==
  (/\ reply.op = "match" /\ reply.result = "ok"
   /\ \A r \in scaleScores : r.scaleId \notin SeqToSet(interestScaleIds)
   /\ \A k \in 1..Len(modelScales) :
         modelScales[k].scaleId \notin SeqToSet(interestScaleIds))
    => /\ reply.interestsFit = Fit(33, 1)
       /\ (/\ Len(modelScales) = 3 /\ Cardinality(scaleScores) = 3
            /\ \A r \in scaleScores : r.stenScore = StenNum(6)
            /\ \A k \in 1..3 : modelScales[k].weight = 1)
           => reply.overallMatch = 87

\* the fits of a reply lie in [0, 100]
C17_FitsInRange ==
  \A f \in {reply.cognitiveFit, reply.behavioralFit, reply.interestsFit} :
     f.n >= 0 /\ f.n <= 100 * f.d

\* C17: for domain fits in [0, 100] the overall match of a match reply is
\* 0.4 cognitive + 0.4 behavioral + 0.2 interests rounded to the nearest integer
\* (halves up) and lies in [0, 100]; fits 100, 100, 0 give 80 and fits 0, 0, 100
\* give 20.
C17_OverallMatch ==
  /\ overallMatch(Fit(100, 1), Fit(100, 1), Fit(0, 1)) = 80
  /\ overallMatch(Fit(0, 1), Fit(0, 1), Fit(100, 1)) = 20
  /\ (reply.op = "match" /\ reply.result = "ok" /\ C17_FitsInRange)
       => LET c == reply.cognitiveFit
              b == reply.behavioralFit
              i == reply.interestsFit
              \* ten times the weighted sum, over the common denominator
              num == 4 * c.n * b.d * i.d + 4 * b.n * c.d * i.d + 2 * i.n * c.d * b.d
              den == c.d * b.d * i.d
          IN /\ reply.overallMatch >= 0 /\ reply.overallMatch <= 100
             /\ (10 * reply.overallMatch - 5) * den <= num
             /\ num < (10 * reply.overallMatch + 5) * den

\* C17 witness: a match with fits in [0, 100] whose weighted sum has a fraction
\* of one half or more and is rounded up.
C17_Witness ==
  /\ reply.op = "match" /\ reply.result = "ok" /\ C17_FitsInRange
  /\ reply.cognitiveFit.n > 0 /\ reply.behavioralFit.n > 0
  /\ LET c == reply.cognitiveFit
         b == reply.behavioralFit
         i == reply.interestsFit
         num == 4 * c.n * b.d * i.d + 4 * b.n * c.d * i.d + 2 * i.n * c.d * b.d
         den == 10 * c.d * b.d * i.d
     IN /\ 2 * (num % den) >= den
        /\ reply.overallMatch = (num \div den) + 1

\* the penalty the claim gives a stored score against a band, in hundredths
C18_Penalty(sc, ms) ==
  LET st == numberOf(sc.stenScore)
      d == (IF ms.targetStenMin > st THEN ms.targetStenMin - st ELSE 0)
             + (IF st > ms.targetStenMax THEN st - ms.targetStenMax ELSE 0)
  IN IF 100 - (15 * d + 5 * d * d) > 0 THEN 100 - (15 * d + 5 * d * d) ELSE 0

\* C18 for one domain: the fit is the weight-weighted mean of the penalties of
\* the contributing ranges, 0 without any, within [0, 100], and 100 iff a range
\* contributes and every contributing scale is within its band.
C18_Domain(fit, scaleIds) ==
  LET used == SelectSeq(modelScales,
                 LAMBDA ms : /\ ms.scaleId \in SeqToSet(scaleIds)
                             /\ \E r \in scaleScores : r.scaleId = ms.scaleId)
      pen(k) == C18_Penalty(CHOOSE r \in scaleScores : r.scaleId = used[k].scaleId,
                            used[k])
      total == SumSeq([k \in 1..Len(used) |-> pen(k) * used[k].weight])
      weights == SumSeq([k \in 1..Len(used) |-> used[k].weight])
  IN /\ Len(used) = 0 => fit.n = 0
     /\ (Len(used) > 0 /\ weights # 0) => fit.n * weights = total * fit.d
     /\ fit.n >= 0 /\ fit.n <= 100 * fit.d
     /\ fit.n = 100 * fit.d
          <=> (Len(used) > 0 /\ \A k \in 1..Len(used) : pen(k) = 100)

\* C18: the cognitive and the behavioral fit of a match are the weight-weighted
\* means of the penalties over the contributing ranges of the domain.
C18_DomainFit ==
  (reply.op = "match" /\ reply.result = "ok")
    => /\ C18_Domain(reply.cognitiveFit, cognitiveScaleIds)
       /\ C18_Domain(reply.behavioralFit, behavioralScaleIds)

\* C19: a match on an assessment that is not completed computes no match,
\* and a computed match has details only for scales the candidate has a score
\* for.
C19_MatchNeedsCompleted ==
  /\ (reply.op = "match" /\ assessment.status # "completed") => reply.result # "ok"
  /\ (reply.op = "match" /\ reply.result = "ok")
       => \A k \in 1..Len(reply.details) :
             \E r \in scaleScores : r.scaleId = reply.details[k].scaleId

\* C20: the selection report flags a distortion STEN of 7 or higher as not
\* valid and one of 3 or lower as valid, in agreement with the category of
\* detectDistortion.
C20_DistortionFlag ==
  (/\ reply.op = "selection" /\ reply.result = "ok"
   /\ reply.distortionScore.present /\ reply.distortionScore.sten.kind = "num")
    => LET st == reply.distortionScore.sten.v \div 1000
       IN /\ st >= 7 => ~reply.distortionScore.valid
          /\ st <= 3 => reply.distortionScore.valid
          /\ detectDistortionCategory(st) = "invalid" => ~reply.distortionScore.valid
          /\ detectDistortionCategory(st) = "valid" => reply.distortionScore.valid

C28_Patterns ==
  validity.result.called
    => LET resp == validity.allBehavioralResponses
           n == Len(resp)
           pat == validity.result.patterns
           alternates == /\ resp[1] # resp[2]
                         /\ \A k \in 3..n : resp[k] = resp[k - 2]
           alternatingPairs ==
             Cardinality({k \in 3..n : resp[k] = resp[k - 2] /\ resp[k] # resp[k - 1]})
       IN /\ n >= 5 => (pat.isStraightLine <=> \A k \in 1..n : resp[k] = resp[1])
          /\ (n >= 5 /\ alternates) => pat.isAlternating
          /\ (n >= 5 /\ 10 * alternatingPairs >= 8 * (n - 2)) => pat.isAlternating
          /\ n < 5 => (~pat.isStraightLine /\ ~pat.isAlternating /\ ~pat.isRandom)

\* the interview blocks the claim expects for the stored scores and model
\* ranges: one per range whose scale has a score outside the band
C22_Expected ==
  LET outside(k) ==
        /\ hasScore(scaleScores, modelScales[k].scaleId)
        /\ LET st == numberOf(scoreOf(scaleScores, modelScales[k].scaleId).stenScore)
           IN st < modelScales[k].targetStenMin \/ st > modelScales[k].targetStenMax
  IN SelectSeq([k \in 1..Len(modelScales) |-> k], LAMBDA k : outside(k))

\* C22: the interview report has exactly one block per model range whose scale
\* has a score outside the band [L, U], in the order of the ranges; the
\* direction of a block is high iff s > U and low iff s < L, its deviation is
\* max(0, L - s) + max(0, s - U), and its questions are those of the bank for
\* the scale and the direction, or the two generic ones for a scale that is not
\* in the bank; STEN 9 on assertiveness against [4, 7] gives high, 2 and the
\* three high-assertiveness questions.
C22_InterviewBlocks ==
  (reply.op = "interview" /\ reply.result = "ok")
    => /\ Len(reply.interviewQuestions) = Len(C22_Expected)
       /\ \A j \in 1..Len(reply.interviewQuestions) :
             LET blk == reply.interviewQuestions[j]
                 ms == modelScales[C22_Expected[j]]
                 st == numberOf(scoreOf(scaleScores, ms.scaleId).stenScore)
                 lo == ms.targetStenMin
                 hi == ms.targetStenMax
             IN /\ blk.scaleId = ms.scaleId
                /\ blk.direction = "high" <=> st > hi
                /\ blk.direction = "low" <=> st < lo
                /\ blk.deviation = (IF lo > st THEN lo - st ELSE 0)
                                     + (IF st > hi THEN st - hi ELSE 0)
                /\ IF ms.scaleId \in DOMAIN questionBank
                   THEN blk.questions = questionBank[ms.scaleId][blk.direction]
                   ELSE /\ Len(blk.questions) = 2
                        /\ blk.questions
                             = <<"Tell me about your experience with learning index.",
                                 "How would you describe your approach to learning index in your work?">>
                /\ (ms.scaleId = "assertiveness" /\ st = 9 /\ lo = 4 /\ hi = 7)
                     => (/\ blk.direction = "high" /\ blk.deviation = 2
                         /\ blk.questions = <<"as_h1", "as_h2", "as_h3">>)

\* C23: after the first complete of a started assessment the raw scores of the
\* interest scales sum to the number of recorded interest responses: every
\* response A or B counts as one win of exactly one scale.
C23_Ipsative ==
  [][(/\ assessment.status = "in_progress" /\ scaleScores = {}
      /\ last'.op = "complete" /\ last'.result = "ok")
     => LET interestRows == {r \in scaleScores' :
                               \E k \in 1..Len(ScaleBank) :
                                  /\ ScaleBank[k].id = r.scaleId
                                  /\ ScaleBank[k].domain = "interests"}
            rowSeq == CHOOSE q \in [1..Cardinality(interestRows) -> interestRows] :
                         \A r \in interestRows : \E k \in DOMAIN q : q[k] = r
            recorded == SelectSeq(responses,
                          LAMBDA r : ItemById(r.itemId).domain = "interests")
        IN SumSeq([k \in DOMAIN rowSeq |-> rowSeq[k].rawScore]) = Len(recorded)]_vars

\* the scale ids in ascending order
C27_Ascending ==
  <<"creative", "enterprising", "financial_admin", "mechanical", "people_service",
    "technical">>

C27_Before(a, b) ==
  \E j, k \in 1..Len(C27_Ascending) :
     j < k /\ C27_Ascending[j] = a /\ C27_Ascending[k] = b

\* C27: scoreInterests gives the scales the distinct ranks 1..N; a scale with
\* strictly more wins has a better rank and a STEN at least as high; scales
\* with equal wins are ranked by ascending scale id; with all six scales tied
\* the top three are the three smallest scale ids.
C27_Ranks ==
  interests.called
    => LET sc == interests.scores
           n == Len(sc)
       IN /\ {sc[k].rank : k \in 1..n} = 1..n
          /\ \A j, k \in 1..n :
                /\ sc[j].rawScore > sc[k].rawScore
                     => (sc[j].rank < sc[k].rank /\ sc[j].sten >= sc[k].sten)
                /\ (sc[j].rawScore = sc[k].rawScore
                      /\ C27_Before(sc[j].scaleId, sc[k].scaleId))
                     => sc[j].rank < sc[k].rank
          /\ (n = 6 /\ \A k \in 1..n : sc[k].rawScore = sc[1].rawScore)
               => interests.top = <<"creative", "enterprising", "financial_admin">>

\* C24: every stored model scale range has 1 <= targetStenMin <= targetStenMax
\* <= 10 and weight > 0.
C24_RangesValid ==
  \A k \in 1..Len(performanceModelScales) :
     LET row == performanceModelScales[k]
     IN /\ 1 <= row.targetStenMin
        /\ row.targetStenMin <= row.targetStenMax
        /\ row.targetStenMax <= 10
        /\ row.weight > 0

\* C30: no stored model scale range names a model that is not in the
\* performance_models table.
C30_NoOrphanRanges ==
  \A k \in 1..Len(performanceModelScales) :
     performanceModelScales[k].modelId \in performanceModels

\* C25: start, next and respond on a completed assessment, and next and respond
\* on a not_started one, are rejected and change neither the assessment nor its
\* responses; no response is stored for an unknown item id; the responses of
\* an assessment only ever grow.
C25_Terminal ==
  [][/\ (/\ \/ (assessment.status = "completed"
                  /\ last'.op \in {"start", "next", "respond"})
              \/ (assessment.status = "not_started"
                  /\ last'.op \in {"next", "respond"})
          /\ last' # last)
        => (/\ last'.result \in {"StateInvalid", "InputInvalid"}
            /\ assessment' = assessment
            /\ responses' = responses)
     /\ \A k \in 1..Len(responses') : responses'[k].itemId \in ItemIds
     /\ Len(responses') >= Len(responses)
     /\ SubSeq(responses', 1, Len(responses)) = responses]_vars

\* C25 witness: respond is rejected on a completed assessment that holds a
\* response.
C25_Witness ==
  /\ assessment.status = "completed"
  /\ last.op = "respond" /\ last.result = "StateInvalid"
  /\ Len(responses) > 0

\* C26: whenever respond, next or complete calls the ability estimator, the
\* i-th correctness value is read together with the item that the i-th of
\* the responses answered, whichever items were administered and in
\* whichever order.
C26_Pairing ==
  estimation.op # "none"
    => /\ Len(estimation.pairs) = Len(estimation.answered)
       /\ \A k \in 1..Len(estimation.pairs) :
            /\ estimation.pairs[k].item = estimation.answered[k].itemId
            /\ estimation.pairs[k].response =
                 (IF estimation.answered[k].isCorrect = "true" THEN 1 ELSE 0)

\* two fits are the same number
C29_SameFit(f, g) == f.n * g.d = g.n * f.d

\* C29: a selection report for a completed assessment and a performance model
\* carries the overall match and the cognitive, behavioral and interests fits
\* that the match endpoint returns for the same scale scores and the same
\* model; the interests fit of both is the one of top-3 rank-order matching.
C29_SelectionEqualsMatch ==
  (reply.op = "selection" /\ reply.result = "ok")
    => LET cognitiveFit == calculateCognitiveMatch(scaleScores, modelScales).fit
           behavioralFit == calculateBehavioralMatch(scaleScores, modelScales).fit
           interestsFit == calculateInterestsMatch(scaleScores, modelScales).fit
       IN /\ C29_SameFit(reply.cognitiveFit, cognitiveFit)
          /\ C29_SameFit(reply.behavioralFit, behavioralFit)
          /\ C29_SameFit(reply.interestsFit, interestsFit)
          /\ reply.overallMatch = overallMatch(cognitiveFit, behavioralFit, interestsFit)

====
